---------------------------- MODULE Spec2Model ----------------------------
(***************************************************************************)
(* A model of the sharded TTL cache of github.com/mcheviron/cache:         *)
(* shard.go (store / items / pos under one RWMutex), the Item type, and    *)
(* cache.go (Set, Get, Peek, Delete, Replace, Extend, Clear, Range,        *)
(* Filter and the inline eviction loop).                                   *)
(*                                                                         *)
(* Granularity.  One step of the model is one critical section of a shard  *)
(* lock, or one atomic operation on the cache-wide words (size,            *)
(* accessClock) or on an item's atomic fields.  Thread-local computation   *)
(* is folded into the step that follows it.                                *)
(*                                                                         *)
(* Items live in a heap indexed by their identity.  A Set draws its tick   *)
(* from accessClock before the item becomes reachable, and nextTick never  *)
(* hands out a tick twice, so the tick drawn by the creating Set is used   *)
(* as the item's identity (the *Item pointer of the Go program).  0 is the *)
(* nil pointer.                                                            *)
(***************************************************************************)
EXTENDS Integers, Sequences, FiniteSets, TLC

\* ------------------------------------------------------------------ bounds

\* Number of threads that may call the cache concurrently.
NThreads == 2

\* Calls each thread may issue freely once the set-up program has run.
MaxCalls == 1

\* Cap on the wall clock (time.Now), in abstract time units, in the
\* single-threaded runs.
MaxTime == 2

\* Cap on the wall clock in the concurrent runs.
MaxTimeConc == 1

\* Largest duration passed to Set / Extend in the free-running states.
MaxDur == 1

\* Values passed to Set / Replace in the free-running states: 1..MaxVal.
MaxVal == 2

\* uint64 arithmetic is carried out modulo WordMod: TLC's integers cannot hold
\* 2^64, and no product of the states explored here comes near WordMod.
WordMod == 65536

\* -------------------------------------------------------- program constants

DefaultShards == 16
DefaultMaxWeight == 5000
DefaultItemsToPrune == 500
DefaultSampleSize == 32

\* reflect.TypeOf(value).Size() for T = int on a 64-bit build.
SizeOfT == 8

\* EvictionPolicy and ExpirationPolicy are uint8 enumerations (iota).
SampledLru == 0
SampledLhd == 1
TreatExpiredAsMiss == 0
ReturnExpired == 1

\* FNV-1a, 32 bit: offset basis 2166136261 and prime 16777619, held as two
\* 16-bit halves because the digest does not fit TLC's integers.
FnvOffsetHi == 33052
FnvOffsetLo == 40389
FnvPrimeHi == 256
FnvPrimeLo == 403

Half == 65536

\* ------------------------------------------------------------ keys, values

\* The keys of the tests of the eviction policies, as strings and as the
\* UTF-8 bytes that New32a().Write receives.
Keys == {"k1", "k2", "k3", "k4"}

KeyBytes(k) ==
    CASE k = "k1" -> <<107, 49>>
      [] k = "k2" -> <<107, 50>>
      [] k = "k3" -> <<107, 51>>
      [] k = "k4" -> <<107, 52>>
      [] OTHER -> <<>>

\* Filter patterns, as bytes: "k", "1" and "x".
Patterns == {<<107>>, <<49>>, <<120>>}

Threads == 1..NThreads

Nil == 0

Max(a, b) == IF a > b THEN a ELSE b

Min(a, b) == IF a < b THEN a ELSE b

\* ------------------------------------------------------------- FNV routing

RECURSIVE Xor(_, _)
Xor(a, b) ==
    IF a = 0 THEN b
    ELSE IF b = 0 THEN a
    ELSE 2 * Xor(a \div 2, b \div 2) + (((a % 2) + (b % 2)) % 2)

RECURSIVE BitAnd(_, _)
BitAnd(a, b) ==
    IF a = 0 \/ b = 0 THEN 0
    ELSE 2 * BitAnd(a \div 2, b \div 2) + ((a % 2) * (b % 2))

\* One round of FNV-1a on the digest <<hi, lo>>: xor the byte into the low
\* half, then multiply by the prime modulo 2^32.
FnvStep(h, byte) ==
    LET lo == Xor(h[2], byte)
        p0 == lo * FnvPrimeLo
        hi == (h[1] * FnvPrimeLo + lo * FnvPrimeHi + (p0 \div Half)) % Half
    IN  <<hi, p0 % Half>>

RECURSIVE Fnv32a(_, _)
Fnv32a(h, bytes) ==
    IF bytes = <<>> THEN h
    ELSE Fnv32a(FnvStep(h, Head(bytes)), Tail(bytes))

\* The low half of the digest of every key (the masks of the model are below
\* 2^16, so the high half never reaches the shard index).
DigestLo == [k \in Keys |-> Fnv32a(<<FnvOffsetHi, FnvOffsetLo>>, KeyBytes(k))[2]]

\* h.Sum32() & c.shardMask
ShardIndex(k, mask) == BitAnd(DigestLo[k], mask)


\* -------------------------------------------------------------------- maps

\* Go maps: a finite function; a missing key reads as the zero value.
EmptyMap == [x \in {} |-> Nil]

MapGet(m, k) == IF k \in DOMAIN m THEN m[k] ELSE 0

MapPut(m, k, v) == [x \in (DOMAIN m) \cup {k} |-> IF x = k THEN v ELSE m[x]]

MapDel(m, k) == [x \in (DOMAIN m) \ {k} |-> m[x]]

\* -------------------------------------------------------------------- Item

newItem(key, value, expires, weight) ==
    [key |-> key, value |-> value, expires |-> expires, weight |-> weight,
     lastAccess |-> 0, createdTick |-> 0, hits |-> 0]

\* Extend storing the duration alone.
ItemExtendFromZero(item, now, duration) == [item EXCEPT !.expires = duration]

\* Item.Extend: atomic store of now + duration.
ItemExtend(item, now, duration) == [item EXCEPT !.expires = now + duration]

\* Expired with one unit of grace.
ExpiredLate(item, now) == item.expires + 1 < now

\* Item.Expired: expires < time.Now().
Expired(item, now) == item.expires < now

\* Item.TTL: expires - time.Now(); zero or negative for an expired item.
TTL(item, now) == item.expires - now

\* Item.touch: atomic store of the tick.
touch(item, tick) == [item EXCEPT !.lastAccess = tick]

\* Item.setCreatedTick, Item.recordHit: store the tick, count one hit.
setCreatedTick(item, tick) == [item EXCEPT !.createdTick = tick]

\* recordHit that loses every hit after the first.
recordHitLost(item, tick) ==
    [item EXCEPT !.lastAccess = tick, !.hits = Max(item.hits, 1)]

recordHit(item, tick) ==
    [item EXCEPT !.lastAccess = tick, !.hits = item.hits + 1]

\* defaultWeigh: len(key) + reflect.TypeOf(value).Size()
defaultWeigh(key, value) == Len(KeyBytes(key)) + SizeOfT

\* The weigher New resolves: Config.Weigher when it is set, else defaultWeigh.
\* "const10" is the weigher of the eviction tests; "byValue" is a user weigher
\* that returns the (integer) value itself.
Weighers == {"nil", "const10", "byValue"}

Weigh(w, key, value) ==
    CASE w = "const10" -> 10
      [] w = "byValue" -> value
      [] OTHER -> defaultWeigh(key, value)

\* ------------------------------------------------------------------ Config

NewConfig ==
    [Shards |-> DefaultShards, MaxWeight |-> DefaultMaxWeight,
     ItemsToPrune |-> DefaultItemsToPrune, SampleSize |-> DefaultSampleSize,
     EvictionPolicy |-> SampledLru, ExpirationPolicy |-> TreatExpiredAsMiss,
     Weigher |-> "nil"]

\* Go's int, at the word size of the model: two's complement in
\* MinInt..MaxInt, subtraction wrapping round, & on the bit patterns.
MinInt == -(WordMod \div 2)

MaxInt == (WordMod \div 2) - 1

ToUnsigned(x) == IF x < 0 THEN x + WordMod ELSE x

ToSigned(u) == IF u > MaxInt THEN u - WordMod ELSE u

\* x - 1
SubOne(x) == ToSigned((ToUnsigned(x) + WordMod - 1) % WordMod)

\* a & b
AndInt(a, b) == ToSigned(BitAnd(ToUnsigned(a), ToUnsigned(b)))

\* out.Shards == 0 || out.Shards&(out.Shards-1) != 0
NotPowerOfTwo(x) == x = 0 \/ AndInt(x, SubOne(x)) # 0

Build(c) ==
    [Shards |-> IF NotPowerOfTwo(c.Shards) THEN DefaultShards ELSE c.Shards,
     MaxWeight |-> IF c.MaxWeight <= 0 THEN DefaultMaxWeight ELSE c.MaxWeight,
     ItemsToPrune |->
        IF c.ItemsToPrune <= 0 THEN DefaultItemsToPrune ELSE c.ItemsToPrune,
     SampleSize |->
        IF c.SampleSize <= 0 THEN DefaultSampleSize ELSE c.SampleSize,
     EvictionPolicy |->
        IF c.EvictionPolicy # SampledLru /\ c.EvictionPolicy # SampledLhd
        THEN SampledLru ELSE c.EvictionPolicy,
     ExpirationPolicy |->
        IF c.ExpirationPolicy # TreatExpiredAsMiss
           /\ c.ExpirationPolicy # ReturnExpired
        THEN TreatExpiredAsMiss ELSE c.ExpirationPolicy,
     Weigher |-> c.Weigher]

\* ------------------------------------------------------------------- shard

newShard == [store |-> EmptyMap, items |-> <<>>, pos |-> EmptyMap]

\* s.items[i] of Go (0-based); Nil stands for an index out of range, which the
\* callers below report as a panic.
ItemAt(items, i) == IF i >= 0 /\ i < Len(items) THEN items[i + 1] ELSE Nil

InRange(items, i) == i >= 0 /\ i < Len(items)

\* get answering with the first item of the sequence, whatever its key.
shardGetFirst(s, key) == IF Len(s.items) = 0 THEN Nil ELSE s.items[1]

shardGet(s, key) == MapGet(s.store, key)

\* set that, on a key already stored, leaves the old item in the map.
shardSetKeepsOld(s, key, item) ==
    LET old == MapGet(s.store, key)
    IN  IF old = Nil
        THEN [sh |-> [store |-> MapPut(s.store, key, item),
                      items |-> Append(s.items, item),
                      pos |-> MapPut(s.pos, key, Len(s.items))],
              old |-> old, panic |-> FALSE]
        ELSE [sh |-> s, old |-> old, panic |-> FALSE]

\* shard.set: [sh: the shard afterwards, old: the displaced item, panic]
shardSet(s, key, item) ==
    LET old == MapGet(s.store, key)
        idx == MapGet(s.pos, key)
    IN  IF old = Nil
        THEN [sh |-> [store |-> MapPut(s.store, key, item),
                      items |-> Append(s.items, item),
                      pos |-> MapPut(s.pos, key, Len(s.items))],
              old |-> old, panic |-> FALSE]
        ELSE IF InRange(s.items, idx)
        THEN [sh |-> [store |-> MapPut(s.store, key, item),
                      items |-> [s.items EXCEPT ![idx + 1] = item],
                      pos |-> s.pos],
              old |-> old, panic |-> FALSE]
        ELSE [sh |-> [s EXCEPT !.store = MapPut(s.store, key, item)],
              old |-> old, panic |-> TRUE]

\* swapRemove without the update of the moved item's position.
swapRemoveStalePos(s, key, h) ==
    LET idx == MapGet(s.pos, key)
        lastIdx == Len(s.items) - 1
        moved == ItemAt(s.items, lastIdx)
        items1 == IF idx # lastIdx THEN [s.items EXCEPT ![idx + 1] = moved]
                  ELSE s.items
    IN  IF lastIdx < 0 \/ ~InRange(s.items, idx)
        THEN [sh |-> [s EXCEPT !.store = MapDel(s.store, key)], panic |-> TRUE]
        ELSE [sh |-> [store |-> MapDel(s.store, key),
                      items |-> SubSeq(items1, 1, lastIdx),
                      pos |-> MapDel(s.pos, key)],
              panic |-> FALSE]

\* The swap-remove shared by delete and deleteIfSame (shard.go 58-67 and
\* 81-90), on a shard whose store holds key.  h is the heap, read for the key
\* of the item that moves (s.items[idx].key).
swapRemove(s, key, h) ==
    LET idx == MapGet(s.pos, key)
        lastIdx == Len(s.items) - 1
        moved == ItemAt(s.items, lastIdx)
        pos1 == IF idx # lastIdx THEN MapPut(s.pos, h[moved].key, idx)
                ELSE s.pos
        items1 == IF idx # lastIdx THEN [s.items EXCEPT ![idx + 1] = moved]
                  ELSE s.items
    IN  IF lastIdx < 0 \/ ~InRange(s.items, idx)
        THEN [sh |-> [s EXCEPT !.store = MapDel(s.store, key)], panic |-> TRUE]
        ELSE [sh |-> [store |-> MapDel(s.store, key),
                      items |-> SubSeq(items1, 1, lastIdx),
                      pos |-> MapDel(pos1, key)],
              panic |-> FALSE]

\* delete that reports the item and leaves it stored.
shardDeleteKeepsEntry(s, key, h) ==
    [sh |-> s, old |-> MapGet(s.store, key), panic |-> FALSE]

\* shard.delete: [sh, old, panic]
shardDelete(s, key, h) ==
    LET old == MapGet(s.store, key)
        r == swapRemove(s, key, h)
    IN  IF old = Nil THEN [sh |-> s, old |-> Nil, panic |-> FALSE]
        ELSE [sh |-> r.sh, old |-> old, panic |-> r.panic]

\* deleteIfSame without the comparison of identities.
shardDeleteIfPresent(s, key, expected, h) ==
    LET current == MapGet(s.store, key)
        r == swapRemove(s, key, h)
    IN  IF current = Nil
        THEN [sh |-> s, ok |-> FALSE, panic |-> FALSE]
        ELSE [sh |-> r.sh, ok |-> TRUE, panic |-> r.panic]

\* shard.deleteIfSame: [sh, ok, panic]
shardDeleteIfSame(s, key, expected, h) ==
    LET current == MapGet(s.store, key)
        r == swapRemove(s, key, h)
    IN  IF current = Nil \/ current # expected
        THEN [sh |-> s, ok |-> FALSE, panic |-> FALSE]
        ELSE [sh |-> r.sh, ok |-> TRUE, panic |-> r.panic]

\* shard.sampleNth: items[n % len(items)], nil for an empty shard.
sampleNth(s, n) ==
    IF Len(s.items) = 0 THEN Nil ELSE s.items[(n % Len(s.items)) + 1]

\* clear that resets the sequence and the positions but keeps the map.
shardClearKeepsStore(s) == [s EXCEPT !.items = <<>>, !.pos = EmptyMap]

shardClear(s) == newShard

itemCount(s) == Cardinality(DOMAIN s.store)


\* ---------------------------------------------------------------- ranking

\* Cache.lhdStats: <<hits, denom>>
lhdStats(item, nowTick) ==
    LET age0 == IF nowTick > item.createdTick
                THEN nowTick - item.createdTick ELSE 0
        age == Max(age0, 1)
        weight == Max(IF item.weight > 0 THEN item.weight ELSE 0, 1)
        d == (age * weight) % WordMod
    IN  <<item.hits, Max(d, 1)>>

\* lhdIsBetterCandidate preferring the lighter item among equal densities.
lhdIsBetterCandidateLighter(candidate, current, nowTick) ==
    LET cand == lhdStats(candidate, nowTick)
        cur == lhdStats(current, nowTick)
        candP == cand[1] * cur[2]
        curP == cur[1] * cand[2]
    IN  IF candP # curP THEN candP < curP
        ELSE IF candidate.weight # current.weight
        THEN candidate.weight < current.weight
        ELSE candidate.lastAccess < current.lastAccess

\* lhdIsBetterCandidate without the tie-breaks on weight and last access.
lhdIsBetterCandidateNoTieBreak(candidate, current, nowTick) ==
    LET cand == lhdStats(candidate, nowTick)
        cur == lhdStats(current, nowTick)
    IN  cand[1] * cur[2] < cur[1] * cand[2]

\* Cache.lhdIsBetterCandidate; bits.Mul64 gives the product as (hi, lo).
lhdIsBetterCandidate(candidate, current, nowTick) ==
    LET cand == lhdStats(candidate, nowTick)
        cur == lhdStats(current, nowTick)
        candP == cand[1] * cur[2]
        curP == cur[1] * cand[2]
        candHi == candP \div WordMod
        candLo == candP % WordMod
        curHi == curP \div WordMod
        curLo == curP % WordMod
    IN  IF candHi # curHi THEN candHi < curHi
        ELSE IF candLo # curLo THEN candLo < curLo
        ELSE IF candidate.weight # current.weight
        THEN candidate.weight > current.weight
        ELSE candidate.lastAccess < current.lastAccess

\* All orders in which a Go map of the given keys may be iterated.
RECURSIVE Perms(_)
Perms(S) ==
    IF S = {} THEN {<<>>}
    ELSE UNION {{<<x>> \o p : p \in Perms(S \ {x})} : x \in S}

\* scanOldest with the comparison turned around.
lruStepNewest(h, acc, id) ==
    IF acc[1] = Nil \/ h[id].lastAccess > acc[2]
    THEN <<id, h[id].lastAccess>> ELSE acc

\* The loop body of scanOldest / pickSampledLru on one item: the running
\* <<best, bestTick>> after looking at item id of heap h.
lruStep(h, acc, id) ==
    IF acc[1] = Nil \/ h[id].lastAccess < acc[2]
    THEN <<id, h[id].lastAccess>> ELSE acc

\* The loop body of scanLeastHitDense / pickSampledLhd on one item.
lhdStep(h, acc, id, nowTick) ==
    IF acc[1] = Nil \/ lhdIsBetterCandidate(h[id], h[acc[1]], nowTick)
    THEN <<id, 0>> ELSE acc

rankStep(policy, h, acc, id, nowTick) ==
    IF policy = SampledLhd THEN lhdStep(h, acc, id, nowTick)
    ELSE lruStep(h, acc, id)

\* One shard's part of scanOldest / scanLeastHitDense: the map is walked in
\* the order given.
RECURSIVE scanShard(_, _, _, _, _)
scanShard(policy, h, acc, order, nowTick) ==
    IF order = <<>> THEN acc
    ELSE scanShard(policy, h, rankStep(policy, h, acc, Head(order), nowTick),
                   Tail(order), nowTick)

\* strings.Contains on byte sequences.
Contains(str, pat) ==
    \E i \in 0..(Len(str) - Len(pat)) : SubSeq(str, i + 1, i + Len(pat)) = pat


\* ------------------------------------------------------------------- state

VARIABLES
    cfg,        \* Cache.cfg: the Config that New built
    shards,     \* Cache.shards: index -> [store, items, pos]
    heap,       \* the allocated items: identity -> Item
    clock,      \* Cache.accessClock
    size,       \* Cache.size
    now,        \* time.Now()
    rlock,      \* per shard: read locks held across a forEach callback
    panicked,   \* an index left its bounds
    pc,         \* per thread: the next step of the call it is in
    loc,        \* per thread: the locals of that call
    last,       \* per thread: the call that returned last, and what it returned
    calls,      \* per thread: calls it may still issue freely
    script,     \* per thread: the calls of a test still to be issued
    mode,       \* which family of initial states the behaviour started in
    lastSet,    \* history, per key: the item of the latest shard.set
    hist        \* history: how each item left its shard, how often its
                \* weight was subtracted from size, which keys a Delete
                \* removed last, and the latest Extend of each item

vars == <<cfg, shards, heap, clock, size, now, rlock, panicked, pc, loc, last,
          calls, script, mode, lastSet, hist>>

\* New without the fallback for a shard count below one.
NumShardsAsBuilt(c) == c.Shards

\* New: the number of shards allocated, and the mask.
NumShards(c) == IF c.Shards < 1 THEN DefaultShards ELSE c.Shards

shardMask == NumShards(cfg) - 1

ShardIds == 0..(NumShards(cfg) - 1)

\* Cache.getShard, as the index of the shard.
getShard(key) == ShardIndex(key, shardMask)

InitLoc ==
    [op |-> "none", key |-> "", value |-> 0, dur |-> 0, pat |-> <<>>,
     stop |-> 0, item |-> Nil, old |-> Nil, cand |-> Nil, evicted |-> 0,
     idx |-> 0, count |-> 0, best |-> Nil, bestTick |-> 0, nowTick |-> 0,
     draws |-> 0, tick |-> 0, replace |-> FALSE, inFilter |-> FALSE,
     todo |-> <<>>, out |-> <<>>, t0 |-> 0, waiting |-> FALSE,
     removed |-> 0, drawn |-> {}]

NoCall ==
    [op |-> "none", key |-> "", value |-> 0, dur |-> 0, res |-> 0,
     item |-> Nil, why |-> "", iters |-> 0, size |-> 0, out |-> <<>>]

CallRec(op, key, value, dur, pat, stop) ==
    [op |-> op, key |-> key, value |-> value, dur |-> dur, pat |-> pat,
     stop |-> stop]

\* The calls a thread may issue in the free-running states.
FreeKeys == {"k1", "k2"}

FreeCalls ==
    {CallRec("Set", k, v, d, <<>>, 0) :
        k \in FreeKeys, v \in 1..MaxVal, d \in 0..MaxDur}
    \cup {CallRec(o, k, 0, 0, <<>>, 0) :
        o \in {"Get", "Peek", "Delete"}, k \in FreeKeys}
    \cup {CallRec("Replace", k, v, 0, <<>>, 0) : k \in FreeKeys, v \in 1..MaxVal}
    \cup {CallRec("Extend", k, 0, d, <<>>, 0) : k \in FreeKeys, d \in 0..MaxDur}
    \cup {CallRec("Clear", "", 0, 0, <<>>, 0)}
    \cup {CallRec("Range", "", 0, 0, <<>>, n) : n \in 0..1}
    \cup {CallRec("Filter", "", 0, 0, p, 0) : p \in Patterns}

FirstPc(op) ==
    CASE op = "Set" -> "set_begin"
      [] op = "Get" -> "get_lookup"
      [] op = "Peek" -> "peek_lookup"
      [] op = "Delete" -> "del_shard"
      [] op = "Replace" -> "rep_peek"
      [] op = "Extend" -> "ext_peek"
      [] op = "Clear" -> "clr_shard"
      [] op = "Range" -> "range_shard"
      [] op = "Filter" -> "filt_lock"

\* ------------------------------------------------- test programs (scripts)

\* time.Minute, in the model's time unit (one unit is a second).
Minute == 60

\* TestCacheEvictsLruWhenOverWeight
LruTestCfg ==
    Build([NewConfig EXCEPT !.Shards = 2, !.MaxWeight = 30,
           !.ItemsToPrune = 10, !.SampleSize = 1024,
           !.EvictionPolicy = SampledLru, !.Weigher = "const10"])

LruTestScript ==
    << CallRec("Set", "k1", 1, Minute, <<>>, 0),
       CallRec("Set", "k2", 2, Minute, <<>>, 0),
       CallRec("Set", "k3", 3, Minute, <<>>, 0),
       CallRec("Get", "k2", 0, 0, <<>>, 0),
       CallRec("Set", "k4", 4, Minute, <<>>, 0),
       CallRec("Peek", "k1", 0, 0, <<>>, 0) >>

\* TestCacheEvictsLhdWhenOverWeight
LhdTestCfg ==
    Build([NewConfig EXCEPT !.Shards = 2, !.MaxWeight = 20,
           !.ItemsToPrune = 10, !.SampleSize = 1024,
           !.EvictionPolicy = SampledLhd, !.Weigher = "const10"])

LhdTestScript ==
    << CallRec("Set", "k1", 1, Minute, <<>>, 0),
       CallRec("Set", "k2", 2, Minute, <<>>, 0) >>
    \o [i \in 1..10 |-> CallRec("Get", "k1", 0, 0, <<>>, 0)]
    \o << CallRec("Set", "k3", 3, Minute, <<>>, 0),
          CallRec("Peek", "k2", 0, 0, <<>>, 0),
          CallRec("Peek", "k1", 0, 0, <<>>, 0),
          CallRec("Peek", "k3", 0, 0, <<>>, 0) >>


\* ----------------------------------------------------------------- helpers

Goto(t, p, l) ==
    /\ pc' = [pc EXCEPT ![t] = p]
    /\ loc' = [loc EXCEPT ![t] = l]
    /\ UNCHANGED <<last, script>>

\* The call of thread t returns (a call of its test program is struck off).
Return(t, rec) ==
    /\ pc' = [pc EXCEPT ![t] = "idle"]
    /\ loc' = [loc EXCEPT ![t] = InitLoc]
    /\ last' = [last EXCEPT ![t] = rec]
    /\ script' = [script EXCEPT ![t] = IF @ # <<>> THEN Tail(@) ELSE @]

Result(l, res, item) ==
    [op |-> l.op, key |-> l.key, value |-> l.value, dur |-> l.dur,
     res |-> res, item |-> item, why |-> "", iters |-> 0, size |-> 0,
     out |-> l.out]

\* What a Set (or the Set inside Replace) reports when evictIfNeeded returns:
\* why it returned, after how many iterations, and size at that moment.
SetResult(l, why, iters, sz) ==
    [op |-> l.op, key |-> l.key, value |-> l.value, dur |-> l.dur,
     res |-> IF l.replace THEN 1 ELSE 0, item |-> l.item, why |-> why,
     iters |-> iters, size |-> sz, out |-> <<>>]

\* nextTick that stops counting after the first tick.
nextTickStuck == Max(clock, 1)

\* Cache.nextTick: atomic.AddUint64(&c.accessClock, 1)
nextTick == (clock + 1) % WordMod

SetShard(i, sh) == [shards EXCEPT ![i] = sh]

\* --------------------------------------------------------------- the calls

\* ----------------------------------------------------------------- history

\* ------------------------------------------------------- sync.RWMutex

\* The shard whose write lock thread t is about to take (-1: none).
WriteShard(t) ==
    CASE pc[t] \in {"set_shard", "del_shard"} -> getShard(loc[t].key)
      [] pc[t] = "ev_delete" -> getShard(heap[loc[t].cand].key)
      [] pc[t] = "clr_shard" -> loc[t].idx
      [] OTHER -> -1

\* A writer has called Lock on shard i and waits for its readers to leave:
\* from then on RLock blocks, also for a goroutine that holds a read lock.
WriterPending(i) == \E u \in Threads : loc[u].waiting /\ WriteShard(u) = i

\* Lock on shard i while readers hold it: thread t becomes a pending writer.
LockPending(t, i) ==
    /\ rlock[i] > 0
    /\ ~loc[t].waiting
    /\ pc' = pc
    /\ loc' = [loc EXCEPT ![t].waiting = TRUE]
    /\ UNCHANGED <<shards, panicked, last, script, lastSet, hist>>

NoHistory ==
    [rem |-> EmptyMap, subs |-> EmptyMap, ext |-> EmptyMap,
     deleted |-> [k \in Keys |-> FALSE], swapped |-> FALSE,
     adds |-> EmptyMap, cleared |-> FALSE]

\* A new item: in no shard yet, its weight never subtracted, never extended.
HNew(h, id) ==
    [h EXCEPT !.rem = MapPut(@, id, ""), !.subs = MapPut(@, id, 0),
              !.ext = MapPut(@, id, <<>>), !.adds = MapPut(@, id, 0)]

\* Item id left its shard by "set", "delete", "evict" or "clear".
HRemoved(h, id, how) == IF id = Nil THEN h ELSE [h EXCEPT !.rem[id] = how]

\* Item id left shard s through delete or deleteIfSame; swapped records
\* that some removal moved the last item of the sequence into the gap.
HSwapRemoved(h, s, id, how) ==
    [HRemoved(h, id, how) EXCEPT
        !.swapped = @ \/ (MapGet(s.pos, heap[id].key) # Len(s.items) - 1)]

\* The weight of item id was subtracted from size.
HSub(h, id) == [h EXCEPT !.subs[id] = @ + 1]

\* The weight of item id was added to size.
HAdd(h, id) == [h EXCEPT !.adds[id] = @ + 1]

\* ---- the wall clock

\* The steps that read time.Now(): Set building its item, Replace taking the
\* remaining TTL, Extend storing the new expiration, and the expiration
\* checks of Get and Peek.  (A call also notes the time at which it starts.)
ClockReadPcs ==
    {"set_begin", "rep_ttl", "ext_store", "get_expired", "peek_expired"}

\* Time passes.  Only the steps above can tell when: a tick between two steps
\* that do not read the clock is the same run as that tick taken right
\* before the next step that does, so the clock moves between calls or just
\* before a clock read.  The runs are bounded further: the set-up and test
\* programs run at time 0, and in the concurrent runs time passes only while
\* no call is in progress.
Tick ==
    /\ now < (IF mode = "conc" THEN MaxTimeConc ELSE MaxTime)
    /\ \A t \in Threads : script[t] = <<>>
    /\ \/ \A t \in Threads : pc[t] = "idle"
       \/ /\ mode # "conc"
          /\ \E t \in Threads : pc[t] \in ClockReadPcs
    /\ now' = now + 1
    /\ UNCHANGED <<cfg, shards, heap, clock, size, rlock, panicked, pc, loc,
                   last, calls, script, mode, lastSet, hist>>

\* A thread issues its next call: the next call of its test program, or,
\* once every test program has returned, any call while it has calls left.
Call(t) ==
    /\ pc[t] = "idle"
    /\ \E c \in (IF script[t] # <<>> THEN {Head(script[t])}
                 ELSE IF calls[t] > 0 /\ \A u \in Threads : script[u] = <<>>
                 THEN FreeCalls ELSE {}) :
          /\ Goto(t, FirstPc(c.op),
                  [InitLoc EXCEPT !.op = c.op, !.key = c.key,
                                  !.value = c.value, !.dur = c.dur,
                                  !.pat = c.pat, !.stop = c.stop,
                                  !.t0 = now])
          /\ hist' = [hist EXCEPT !.cleared = @ \/ c.op = "Clear"]
    /\ calls' = [calls EXCEPT ![t] = IF script[t] # <<>> THEN @ ELSE @ - 1]
    /\ UNCHANGED <<cfg, shards, heap, clock, size, now, rlock, panicked, mode,
                   lastSet>>

\* ---- Set (cache.go 134-149)

\* time.Now().Add(duration), the weigher, newItem, nextTick, setCreatedTick
\* and touch: the new item is private until shard.set.
SetBegin(t) ==
    /\ pc[t] = "set_begin"
    /\ LET l == loc[t]
           tick == nextTick
           item == touch(setCreatedTick(
                       newItem(l.key, l.value, now + l.dur,
                               Weigh(cfg.Weigher, l.key, l.value)), tick), tick)
       IN  /\ clock' = tick
           /\ heap' = MapPut(heap, tick, item)
           /\ hist' = [HNew(hist, tick) EXCEPT !.deleted[l.key] = FALSE]
           /\ Goto(t, "set_shard", [l EXCEPT !.item = tick])
    /\ UNCHANGED <<cfg, shards, size, now, rlock, panicked, calls, mode,
                   lastSet>>

\* old := c.getShard(key).set(key, item)
SetStore(t) ==
    /\ pc[t] = "set_shard"
    /\ LET l == [loc[t] EXCEPT !.waiting = FALSE]
           i == getShard(l.key)
           r == shardSet(shards[i], l.key, l.item)
       IN  \/ /\ rlock[i] = 0
              /\ shards' = SetShard(i, r.sh)
              /\ panicked' = (panicked \/ r.panic)
              /\ lastSet' = [lastSet EXCEPT ![l.key] = l.item]
              /\ hist' = HRemoved(hist, r.old, "set")
              /\ Goto(t, IF r.old # Nil THEN "set_subold" ELSE "set_add",
                      [l EXCEPT !.old = r.old])
           \/ LockPending(t, i)
    /\ UNCHANGED <<cfg, heap, clock, size, now, rlock, calls, mode>>

\* atomic.AddInt64(&c.size, -int64(old.weight))
SetSubOld(t) ==
    /\ pc[t] = "set_subold"
    /\ size' = size - heap[loc[t].old].weight
    /\ hist' = HSub(hist, loc[t].old)
    /\ Goto(t, "set_add", loc[t])
    /\ UNCHANGED <<cfg, shards, heap, clock, now, rlock, panicked, calls,
                   mode, lastSet>>

\* atomic.AddInt64(&c.size, int64(item.weight)); then evictIfNeeded starts.
SetAdd(t) ==
    /\ pc[t] = "set_add"
    /\ size' = size + heap[loc[t].item].weight
    /\ hist' = HAdd(hist, loc[t].item)
    /\ Goto(t, "ev_check", [loc[t] EXCEPT !.evicted = 0])
    /\ UNCHANGED <<cfg, shards, heap, clock, now, rlock, panicked, calls,
                   mode, lastSet>>

\* ---- evictIfNeeded (cache.go 225-240)

\* The head of an iteration: the load of size and the comparison.
EvCheck(t) ==
    /\ pc[t] = "ev_check"
    /\ IF size <= cfg.MaxWeight
       THEN Return(t, SetResult(loc[t], "size", loc[t].evicted, size))
       ELSE Goto(t, "pick_count", [loc[t] EXCEPT !.idx = 0, !.count = 0])
    /\ UNCHANGED <<cfg, shards, heap, clock, size, now, rlock, panicked,
                   calls, mode, lastSet, hist>>

\* pickEvictionCandidate: c.ItemCount(), one shard per step; after the last
\* shard the path is chosen (and the LHD paths load accessClock).
PickCount(t) ==
    /\ pc[t] = "pick_count"
    /\ ~WriterPending(loc[t].idx)
    /\ LET l == loc[t]
           count == l.count + itemCount(shards[l.idx])
           nowTick == IF clock = 0 THEN 1 ELSE clock
           l1 == [l EXCEPT !.count = count, !.idx = 0, !.best = Nil,
                           !.bestTick = 0, !.draws = 0, !.nowTick = nowTick,
                           !.drawn = {}]
       IN  IF l.idx + 1 < NumShards(cfg)
           THEN Goto(t, "pick_count",
                     [l EXCEPT !.count = count, !.idx = l.idx + 1])
           ELSE IF count <= cfg.SampleSize
           THEN Goto(t, "scan", l1)
           ELSE Goto(t, "sample", l1)
    /\ UNCHANGED <<cfg, shards, heap, clock, size, now, rlock, panicked,
                   calls, mode, lastSet, hist>>

\* The eviction loop with one iteration too many.
IterEndLate(t, l, sz) ==
    IF l.evicted + 1 < cfg.ItemsToPrune + 1
    THEN Goto(t, "ev_check", [l EXCEPT !.evicted = l.evicted + 1])
    ELSE Return(t, SetResult(l, "budget", l.evicted + 1, sz))

\* The end of one iteration of the eviction loop: evicted++ and the loop
\* condition.
IterEnd(t, l, sz) ==
    IF l.evicted + 1 < cfg.ItemsToPrune
    THEN Goto(t, "ev_check", [l EXCEPT !.evicted = l.evicted + 1])
    ELSE Return(t, SetResult(l, "budget", l.evicted + 1, sz))

\* pickEvictionCandidate finding nothing after the first iteration.
PickedOnceOnly(t, l, best) ==
    IF best = Nil \/ l.evicted > 0
    THEN Return(t, SetResult(l, "nocand", l.evicted, size))
    ELSE Goto(t, "ev_delete", [l EXCEPT !.cand = best])

\* The candidate is known: nil ends evictIfNeeded, else deleteIfSame follows.
Picked(t, l, best) ==
    IF best = Nil
    THEN Return(t, SetResult(l, "nocand", l.evicted, size))
    ELSE Goto(t, "ev_delete", [l EXCEPT !.cand = best])

\* pickSampledLru / pickSampledLhd: one draw (a shard, then sampleNth of a
\* random number, then the comparison with the best so far).
Sample(t) ==
    /\ pc[t] = "sample"
    /\ LET l == loc[t] IN
       \E i \in {j \in ShardIds : ~WriterPending(j)} :
       \E n \in 0..Max(Len(shards[i].items) - 1, 0) :
          LET item == sampleNth(shards[i], n)
              acc == IF item = Nil THEN <<l.best, l.bestTick>>
                     ELSE rankStep(cfg.EvictionPolicy, heap,
                                   <<l.best, l.bestTick>>, item, l.nowTick)
              l1 == [l EXCEPT !.best = acc[1], !.bestTick = acc[2],
                              !.draws = l.draws + 1,
                              !.drawn = IF item = Nil THEN l.drawn
                                        ELSE l.drawn \cup {item}]
          IN  IF l.draws + 1 < cfg.SampleSize
              THEN Goto(t, "sample", l1)
              ELSE IF acc[1] # Nil
              THEN Picked(t, l1, acc[1])
              ELSE Goto(t, "scan",
                        [l1 EXCEPT !.idx = 0,
                                   !.nowTick = IF clock = 0 THEN 1 ELSE clock])
    /\ UNCHANGED <<cfg, shards, heap, clock, size, now, rlock, panicked,
                   calls, mode, lastSet, hist>>

\* scanOldest / scanLeastHitDense: one shard per step, under its read lock,
\* the map walked in any order.
Scan(t) ==
    /\ pc[t] = "scan"
    /\ ~WriterPending(loc[t].idx)
    /\ LET l == loc[t]
           ids == {shards[l.idx].store[k] : k \in DOMAIN shards[l.idx].store}
       IN
       \E acc \in {scanShard(cfg.EvictionPolicy, heap, <<l.best, l.bestTick>>,
                             order, l.nowTick) : order \in Perms(ids)} :
          LET l1 == [l EXCEPT !.best = acc[1], !.bestTick = acc[2],
                              !.idx = l.idx + 1]
          IN  IF l.idx + 1 < NumShards(cfg)
              THEN Goto(t, "scan", l1)
              ELSE Picked(t, l1, acc[1])
    /\ UNCHANGED <<cfg, shards, heap, clock, size, now, rlock, panicked,
                   calls, mode, lastSet, hist>>

\* c.getShard(candidate.key).deleteIfSame(candidate.key, candidate)
EvDelete(t) ==
    /\ pc[t] = "ev_delete"
    /\ LET l == [loc[t] EXCEPT !.waiting = FALSE]
           k == heap[l.cand].key
           i == getShard(k)
           r == shardDeleteIfSame(shards[i], k, l.cand, heap)
       IN  \/ /\ rlock[i] = 0
              /\ shards' = SetShard(i, r.sh)
              /\ panicked' = (panicked \/ r.panic)
              /\ hist' = IF r.ok
                         THEN HSwapRemoved(hist, shards[i], l.cand, "evict")
                         ELSE hist
              /\ IF r.ok
                 THEN Goto(t, "ev_sub", [l EXCEPT !.removed = @ + 1])
                 ELSE IterEnd(t, l, size)
              /\ UNCHANGED lastSet
           \/ LockPending(t, i)
    /\ UNCHANGED <<cfg, heap, clock, size, now, rlock, calls, mode>>

\* atomic.AddInt64(&c.size, -int64(candidate.weight))
EvSub(t) ==
    /\ pc[t] = "ev_sub"
    /\ LET sz == size - heap[loc[t].cand].weight
       IN  /\ size' = sz
           /\ IterEnd(t, loc[t], sz)
    /\ hist' = HSub(hist, loc[t].cand)
    /\ UNCHANGED <<cfg, shards, heap, clock, now, rlock, panicked, calls,
                   mode, lastSet>>

\* ---- Get (cache.go 99-111), also as the callback of Filter

\* The end of a Get whose result Filter's callback does not keep.
GetDoneDropping(t, l, item) ==
    IF l.inFilter
    THEN Goto(t, "filt_next", [l EXCEPT !.item = Nil, !.tick = 0])
    ELSE Return(t, Result(l, item, item))

\* A Get that is Filter's callback hands its item to the closure and the
\* iteration goes on; any other Get returns to the caller.
GetDone(t, l, item) ==
    IF l.inFilter
    THEN Goto(t, "filt_next",
              [l EXCEPT !.item = Nil, !.tick = 0,
                        !.out = IF item = Nil THEN l.out
                                ELSE Append(l.out, item)])
    ELSE Return(t, Result(l, item, item))

GetLookup(t) ==
    /\ pc[t] = "get_lookup"
    /\ ~WriterPending(getShard(loc[t].key))
    /\ LET l == loc[t]
           item == shardGet(shards[getShard(l.key)], l.key)
       IN  IF item = Nil THEN GetDone(t, l, Nil)
           ELSE Goto(t, "get_expired", [l EXCEPT !.item = item])
    /\ UNCHANGED <<cfg, shards, heap, clock, size, now, rlock, panicked,
                   calls, mode, lastSet, hist>>

\* Get that removes the expired item it finds.
GetExpiredRemoving(t) ==
    /\ pc[t] = "get_expired"
    /\ LET l == loc[t]
           i == getShard(l.key)
       IN  IF cfg.ExpirationPolicy = TreatExpiredAsMiss
              /\ Expired(heap[l.item], now)
           THEN /\ GetDone(t, l, Nil)
                /\ shards' = SetShard(i, shardDelete(shards[i], l.key, heap).sh)
           ELSE /\ Goto(t, "get_tick", l)
                /\ shards' = shards
    /\ UNCHANGED <<cfg, heap, clock, size, now, rlock, panicked,
                   calls, mode, lastSet, hist>>

GetExpired(t) ==
    /\ pc[t] = "get_expired"
    /\ LET l == loc[t] IN
       IF cfg.ExpirationPolicy = TreatExpiredAsMiss /\ Expired(heap[l.item], now)
       THEN GetDone(t, l, Nil)
       ELSE Goto(t, "get_tick", l)
    /\ UNCHANGED <<cfg, shards, heap, clock, size, now, rlock, panicked,
                   calls, mode, lastSet, hist>>

GetTick(t) ==
    /\ pc[t] = "get_tick"
    /\ clock' = nextTick
    /\ Goto(t, "get_hit", [loc[t] EXCEPT !.tick = nextTick])
    /\ UNCHANGED <<cfg, shards, heap, size, now, rlock, panicked, calls,
                   mode, lastSet, hist>>

GetHit(t) ==
    /\ pc[t] = "get_hit"
    /\ LET l == loc[t] IN
       /\ heap' = [heap EXCEPT ![l.item] = recordHit(@, l.tick)]
       /\ GetDone(t, l, l.item)
    /\ UNCHANGED <<cfg, shards, clock, size, now, rlock, panicked, calls,
                   mode, lastSet, hist>>

\* ---- Peek (cache.go 116-125)

PeekLookup(t) ==
    /\ pc[t] = "peek_lookup"
    /\ ~WriterPending(getShard(loc[t].key))
    /\ LET l == loc[t]
           item == shardGet(shards[getShard(l.key)], l.key)
       IN  IF item = Nil THEN Return(t, Result(l, Nil, Nil))
           ELSE Goto(t, "peek_expired", [l EXCEPT !.item = item])
    /\ UNCHANGED <<cfg, shards, heap, clock, size, now, rlock, panicked,
                   calls, mode, lastSet, hist>>

\* Peek that records a hit, as Get does.
PeekExpiredTouching(t) ==
    /\ pc[t] = "peek_expired"
    /\ LET l == loc[t] IN
       IF cfg.ExpirationPolicy = TreatExpiredAsMiss /\ Expired(heap[l.item], now)
       THEN /\ Return(t, Result(l, Nil, Nil))
            /\ heap' = heap
       ELSE /\ Return(t, Result(l, l.item, l.item))
            /\ heap' = [heap EXCEPT ![l.item] = recordHit(@, clock)]
    /\ UNCHANGED <<cfg, shards, clock, size, now, rlock, panicked,
                   calls, mode, lastSet, hist>>

PeekExpired(t) ==
    /\ pc[t] = "peek_expired"
    /\ LET l == loc[t] IN
       IF cfg.ExpirationPolicy = TreatExpiredAsMiss /\ Expired(heap[l.item], now)
       THEN Return(t, Result(l, Nil, Nil))
       ELSE Return(t, Result(l, l.item, l.item))
    /\ UNCHANGED <<cfg, shards, heap, clock, size, now, rlock, panicked,
                   calls, mode, lastSet, hist>>

\* ---- Delete (cache.go 152-156)

DelShard(t) ==
    /\ pc[t] = "del_shard"
    /\ LET l == [loc[t] EXCEPT !.waiting = FALSE]
           i == getShard(l.key)
           r == shardDelete(shards[i], l.key, heap)
       IN  \/ /\ rlock[i] = 0
              /\ shards' = SetShard(i, r.sh)
              /\ panicked' = (panicked \/ r.panic)
              /\ IF r.old = Nil
                 THEN /\ Return(t, Result(l, Nil, Nil))
                      /\ hist' = [hist EXCEPT !.deleted[l.key] = TRUE]
                 ELSE /\ Goto(t, "del_sub", [l EXCEPT !.old = r.old])
                      /\ hist' = HSwapRemoved(hist, shards[i], r.old, "delete")
              /\ UNCHANGED lastSet
           \/ LockPending(t, i)
    /\ UNCHANGED <<cfg, heap, clock, size, now, rlock, calls, mode>>

DelSub(t) ==
    /\ pc[t] = "del_sub"
    /\ size' = size - heap[loc[t].old].weight
    /\ hist' = [HSub(hist, loc[t].old) EXCEPT !.deleted[loc[t].key] = TRUE]
    /\ Return(t, Result(loc[t], loc[t].old, loc[t].old))
    /\ UNCHANGED <<cfg, shards, heap, clock, now, rlock, panicked, calls,
                   mode, lastSet>>

\* ---- Replace (cache.go 161-168)

\* item := c.peekRaw(key)
RepPeek(t) ==
    /\ pc[t] = "rep_peek"
    /\ ~WriterPending(getShard(loc[t].key))
    /\ LET l == loc[t]
           item == shardGet(shards[getShard(l.key)], l.key)
       IN  IF item = Nil THEN Return(t, Result(l, 0, Nil))
           ELSE Goto(t, "rep_ttl", [l EXCEPT !.old = item])
    /\ UNCHANGED <<cfg, shards, heap, clock, size, now, rlock, panicked,
                   calls, mode, lastSet, hist>>

\* item.TTL(), the duration of the Set that follows.
RepTTL(t) ==
    /\ pc[t] = "rep_ttl"
    /\ Goto(t, "set_begin",
            [loc[t] EXCEPT !.dur = TTL(heap[loc[t].old], now), !.old = Nil,
                           !.replace = TRUE])
    /\ UNCHANGED <<cfg, shards, heap, clock, size, now, rlock, panicked,
                   calls, mode, lastSet, hist>>

\* ---- Extend (cache.go 173-181)

\* Extend reading through the expiration policy, as Peek does.
ExtPeekHonoringExpiry(t) ==
    /\ pc[t] = "ext_peek"
    /\ ~WriterPending(getShard(loc[t].key))
    /\ LET l == loc[t]
           item == shardGet(shards[getShard(l.key)], l.key)
       IN  IF item = Nil
              \/ (cfg.ExpirationPolicy = TreatExpiredAsMiss
                  /\ Expired(heap[item], now))
           THEN Return(t, Result(l, 0, Nil))
           ELSE Goto(t, "ext_store", [l EXCEPT !.item = item])
    /\ UNCHANGED <<cfg, shards, heap, clock, size, now, rlock, panicked,
                   calls, mode, lastSet, hist>>

ExtPeek(t) ==
    /\ pc[t] = "ext_peek"
    /\ ~WriterPending(getShard(loc[t].key))
    /\ LET l == loc[t]
           item == shardGet(shards[getShard(l.key)], l.key)
       IN  IF item = Nil THEN Return(t, Result(l, 0, Nil))
           ELSE Goto(t, "ext_store", [l EXCEPT !.item = item])
    /\ UNCHANGED <<cfg, shards, heap, clock, size, now, rlock, panicked,
                   calls, mode, lastSet, hist>>

\* item.Extend(duration)
ExtStore(t) ==
    /\ pc[t] = "ext_store"
    /\ heap' = [heap EXCEPT ![loc[t].item] = ItemExtend(@, now, loc[t].dur)]
    /\ hist' = [hist EXCEPT !.ext[loc[t].item] =
                    <<now, loc[t].dur, loc[t].t0, heap[loc[t].item].expires>>]
    /\ Goto(t, "ext_tick", loc[t])
    /\ UNCHANGED <<cfg, shards, clock, size, now, rlock, panicked, calls,
                   mode, lastSet>>

ExtTick(t) ==
    /\ pc[t] = "ext_tick"
    /\ clock' = nextTick
    /\ Goto(t, "ext_touch", [loc[t] EXCEPT !.tick = nextTick])
    /\ UNCHANGED <<cfg, shards, heap, size, now, rlock, panicked, calls,
                   mode, lastSet, hist>>

\* item.touch(tick)
ExtTouch(t) ==
    /\ pc[t] = "ext_touch"
    /\ heap' = [heap EXCEPT ![loc[t].item] = touch(@, loc[t].tick)]
    /\ Return(t, Result(loc[t], 1, loc[t].item))
    /\ UNCHANGED <<cfg, shards, clock, size, now, rlock, panicked, calls,
                   mode, lastSet, hist>>

\* ---- Clear (cache.go 184-189)

ClrShard(t) ==
    /\ pc[t] = "clr_shard"
    /\ LET l == [loc[t] EXCEPT !.waiting = FALSE]
           gone == {shards[l.idx].store[k] : k \in DOMAIN shards[l.idx].store}
       IN  \/ /\ rlock[l.idx] = 0
              /\ shards' = SetShard(l.idx, shardClear(shards[l.idx]))
              /\ hist' = [hist EXCEPT !.rem = [id \in DOMAIN @ |->
                                       IF id \in gone THEN "clear" ELSE @[id]]]
              /\ IF l.idx + 1 < NumShards(cfg)
                 THEN Goto(t, "clr_shard", [l EXCEPT !.idx = l.idx + 1])
                 ELSE Goto(t, "clr_size", l)
              /\ UNCHANGED <<panicked, lastSet>>
           \/ LockPending(t, l.idx)
    /\ UNCHANGED <<cfg, heap, clock, size, now, rlock, calls, mode>>

\* atomic.StoreInt64(&c.size, 0)
ClrSize(t) ==
    /\ pc[t] = "clr_size"
    /\ size' = 0
    /\ Return(t, Result(loc[t], 0, Nil))
    /\ UNCHANGED <<cfg, shards, heap, clock, now, rlock, panicked, calls,
                   mode, lastSet, hist>>

\* ---- Range (cache.go 194-200, shard.go 112-121)

\* Range that ignores the result of forEach: a false return ends the walk of
\* the current shard only.
RangeShardIgnoringStop(t) ==
    /\ pc[t] = "range_shard"
    /\ ~WriterPending(loc[t].idx)
    /\ LET l == loc[t] IN
       \E order \in Perms(DOMAIN shards[l.idx].store) :
          LET room == IF l.stop = 0 THEN Len(order)
                      ELSE Min(Len(order), l.stop)
              out == l.out \o SubSeq(order, 1, room)
          IN  IF l.idx + 1 < NumShards(cfg)
              THEN Goto(t, "range_shard",
                        [l EXCEPT !.out = out, !.idx = l.idx + 1])
              ELSE Return(t, Result([l EXCEPT !.out = out], 0, Nil))
    /\ UNCHANGED <<cfg, shards, heap, clock, size, now, rlock, panicked,
                   calls, mode, lastSet, hist>>

\* forEach on one shard: the callback of the model records the key it gets
\* and returns false on its stop-th call (never, when stop is 0).  Keys and
\* values are immutable and the read lock keeps writers out, so the walk of
\* one shard is one step.
RangeShard(t) ==
    /\ pc[t] = "range_shard"
    /\ ~WriterPending(loc[t].idx)
    /\ LET l == loc[t] IN
       \E order \in Perms(DOMAIN shards[l.idx].store) :
          LET room == IF l.stop = 0 THEN Len(order)
                      ELSE Min(Len(order), l.stop - Len(l.out))
              out == l.out \o SubSeq(order, 1, room)
              stopped == l.stop # 0 /\ Len(out) >= l.stop
          IN  IF ~stopped /\ l.idx + 1 < NumShards(cfg)
              THEN Goto(t, "range_shard",
                        [l EXCEPT !.out = out, !.idx = l.idx + 1])
              ELSE Return(t, Result([l EXCEPT !.out = out], 0, Nil))
    /\ UNCHANGED <<cfg, shards, heap, clock, size, now, rlock, panicked,
                   calls, mode, lastSet, hist>>

\* ---- Filter (cache.go 205-217)

\* forEach takes the read lock of the shard; the keys that contain the
\* pattern are the ones whose callback calls Get.
FiltLock(t) ==
    /\ pc[t] = "filt_lock"
    /\ ~WriterPending(loc[t].idx)
    /\ LET l == loc[t] IN
       /\ rlock' = [rlock EXCEPT ![l.idx] = @ + 1]
       /\ \E order \in Perms(DOMAIN shards[l.idx].store) :
             Goto(t, "filt_next",
                  [l EXCEPT !.todo = SelectSeq(order,
                                LAMBDA k : Contains(KeyBytes(k), l.pat))])
    /\ UNCHANGED <<cfg, shards, heap, clock, size, now, panicked, calls,
                   mode, lastSet, hist>>

\* The next matching entry's callback starts its Get; after the last entry
\* forEach releases the read lock and Range moves to the next shard.
FiltNext(t) ==
    /\ pc[t] = "filt_next"
    /\ LET l == loc[t] IN
       IF l.todo # <<>>
       THEN /\ Goto(t, "get_lookup",
                    [l EXCEPT !.key = Head(l.todo), !.todo = Tail(l.todo),
                              !.inFilter = TRUE])
            /\ UNCHANGED rlock
       ELSE /\ rlock' = [rlock EXCEPT ![l.idx] = @ - 1]
            /\ IF l.idx + 1 < NumShards(cfg)
               THEN Goto(t, "filt_lock",
                         [l EXCEPT !.idx = l.idx + 1, !.inFilter = FALSE,
                                   !.key = ""])
               ELSE Return(t, Result([l EXCEPT !.key = ""], 0, Nil))
    /\ UNCHANGED <<cfg, shards, heap, clock, size, now, panicked, calls,
                   mode, lastSet, hist>>

\* ------------------------------------------------------------ specification

Step(t) ==
    \/ Call(t)
    \/ SetBegin(t) \/ SetStore(t) \/ SetSubOld(t) \/ SetAdd(t)
    \/ EvCheck(t) \/ PickCount(t) \/ Sample(t) \/ Scan(t)
    \/ EvDelete(t) \/ EvSub(t)
    \/ GetLookup(t) \/ GetExpired(t) \/ GetTick(t) \/ GetHit(t)
    \/ PeekLookup(t) \/ PeekExpired(t)
    \/ DelShard(t) \/ DelSub(t)
    \/ RepPeek(t) \/ RepTTL(t)
    \/ ExtPeek(t) \/ ExtStore(t) \/ ExtTick(t) \/ ExtTouch(t)
    \/ ClrShard(t) \/ ClrSize(t)
    \/ RangeShard(t)
    \/ FiltLock(t) \/ FiltNext(t)

Next == Tick \/ \E t \in Threads : Step(t)

\* The state New returns for configuration c, with the given budget of free
\* calls and test programs.
InitWith(c, m, budget, prog) ==
    /\ cfg = Build(c)
    /\ shards = [i \in 0..(NumShards(Build(c)) - 1) |-> newShard]
    /\ heap = EmptyMap
    /\ clock = 0
    /\ size = 0
    /\ now = 0
    /\ rlock = [i \in 0..(NumShards(Build(c)) - 1) |-> 0]
    /\ panicked = FALSE
    /\ pc = [t \in Threads |-> "idle"]
    /\ loc = [t \in Threads |-> InitLoc]
    /\ last = [t \in Threads |-> NoCall]
    /\ calls = budget
    /\ script = prog
    /\ mode = m
    /\ lastSet = [k \in Keys |-> Nil]
    /\ hist = NoHistory

\* Configurations of the free-running states: small enough that the weight
\* bound is reached after one or two Sets.  The last two have an empty shard
\* and more items than sample_size when the third key is set, so that the
\* sampled path runs with two draws.
FreeConfigs ==
    { [NewConfig EXCEPT !.Shards = 2, !.MaxWeight = 2, !.ItemsToPrune = 2,
                        !.SampleSize = 4, !.Weigher = "byValue"],
      [NewConfig EXCEPT !.Shards = 1, !.MaxWeight = 1, !.ItemsToPrune = 1,
                        !.SampleSize = 1, !.Weigher = "byValue"],
      [NewConfig EXCEPT !.Shards = 1, !.MaxWeight = 2, !.ItemsToPrune = 2,
                        !.SampleSize = 1, !.EvictionPolicy = SampledLhd,
                        !.ExpirationPolicy = ReturnExpired,
                        !.Weigher = "byValue"],
      [NewConfig EXCEPT !.Shards = 2, !.MaxWeight = 2, !.ItemsToPrune = 1,
                        !.SampleSize = 4, !.EvictionPolicy = SampledLhd,
                        !.Weigher = "byValue"],
      [NewConfig EXCEPT !.Shards = 4, !.MaxWeight = 2, !.ItemsToPrune = 2,
                        !.SampleSize = 2, !.Weigher = "byValue"],
      [NewConfig EXCEPT !.Shards = 4, !.MaxWeight = 2, !.ItemsToPrune = 2,
                        !.SampleSize = 2, !.EvictionPolicy = SampledLhd,
                        !.Weigher = "byValue"] }

\* Set-up programs: the calls thread 1 makes before the free calls start.
Setups ==
    { <<>>,
      << CallRec("Set", "k1", 1, 1, <<>>, 0) >>,
      << CallRec("Set", "k2", 1, 0, <<>>, 0),
         CallRec("Set", "k1", 1, 1, <<>>, 0) >>,
      << CallRec("Set", "k1", 1, 0, <<>>, 0),
         CallRec("Get", "k1", 0, 0, <<>>, 0),
         CallRec("Set", "k3", 1, 1, <<>>, 0) >> }

OnlyThread1(x, other) == [t \in Threads |-> IF t = 1 THEN x ELSE other]

\* The configurations and set-up programs of the concurrent states: a cache
\* of two shards that a second unit of weight fills, and a cache of one shard
\* that any item of weight 2 overfills.
ConcConfigs ==
    { [NewConfig EXCEPT !.Shards = 2, !.MaxWeight = 2, !.ItemsToPrune = 2,
                        !.SampleSize = 4, !.Weigher = "byValue"],
      [NewConfig EXCEPT !.Shards = 1, !.MaxWeight = 1, !.ItemsToPrune = 1,
                        !.SampleSize = 1, !.Weigher = "byValue"] }

ConcSetups ==
    { << CallRec("Set", "k1", 1, 1, <<>>, 0) >>,
      << CallRec("Set", "k2", 1, 0, <<>>, 0),
         CallRec("Set", "k1", 1, 1, <<>>, 0) >> }

\* Concurrent use: thread 1 runs a set-up program, then every thread issues
\* up to MaxCalls calls.
Init ==
    \E c \in ConcConfigs : \E setup \in ConcSetups :
       InitWith(c, "conc", [t \in Threads |-> MaxCalls],
                OnlyThread1(setup, <<>>))

Spec == Init /\ [][Next]_vars

\* Single-threaded use: thread 1 runs a set-up program and then up to
\* MaxCalls + 1 calls, or it runs one of the two eviction tests.
InitST ==
    \/ \E c \in FreeConfigs : \E setup \in Setups :
          InitWith(c, "st", OnlyThread1(MaxCalls + 1, 0),
                   OnlyThread1(setup, <<>>))
    \/ InitWith(LruTestCfg, "lru", [t \in Threads |-> 0],
                OnlyThread1(LruTestScript, <<>>))
    \/ InitWith(LhdTestCfg, "lhd", [t \in Threads |-> 0],
                OnlyThread1(LhdTestScript, <<>>))

SpecST == InitST /\ [][Next]_vars

\* The configurations handed to New that Build has to repair: every field
\* at zero, below zero, at the most negative integer, and at valid values.
BuildInputs ==
    [Shards : {MinInt, -1, 0, 1, 2, 3, DefaultShards},
     MaxWeight : {MinInt, -1, 0, 1},
     ItemsToPrune : {MinInt, 0, 1},
     SampleSize : {MinInt, 0, 1},
     EvictionPolicy : {SampledLru, SampledLhd, 2, 255},
     ExpirationPolicy : {TreatExpiredAsMiss, ReturnExpired, 2, 255},
     Weigher : {"byValue"}]

\* New on any of these configurations, then up to MaxCalls calls of thread 1.
InitCfg ==
    \E c \in BuildInputs :
       InitWith(c, "st", OnlyThread1(MaxCalls, 0), OnlyThread1(<<>>, <<>>))

\* Any configuration, together with the single-threaded runs.
SpecCfg == (InitCfg \/ InitST) /\ [][Next]_vars

\* A cache that has been in use for a while under the LHD policy: k1 was set
\* at tick 1 and k3 at tick 2, both have been read since, and the access
\* clock stands at in.T.  The next Set exceeds max_weight with three items
\* stored and a sample size of two.
AgedInputs ==
    [T : {3, 257}, w1 : {1, 256}, w2 : {1, 256}, h1 : {1, 2}, h2 : {1, 2}]

AgedItem(key, w, created, hits, lastAccess) ==
    [newItem(key, w, Minute, w) EXCEPT !.createdTick = created,
                                       !.hits = hits,
                                       !.lastAccess = lastAccess]

InitAged ==
    \E in \in AgedInputs :
       /\ cfg = Build([NewConfig EXCEPT !.Shards = 1,
                                        !.MaxWeight = in.w1 + in.w2,
                                        !.ItemsToPrune = 1, !.SampleSize = 2,
                                        !.EvictionPolicy = SampledLhd,
                                        !.Weigher = "byValue"])
       /\ heap = MapPut(MapPut(EmptyMap, 1,
                               AgedItem("k1", in.w1, 1, in.h1, in.T - 1)),
                        2, AgedItem("k3", in.w2, 2, in.h2, in.T))
       /\ shards = [i \in {0} |->
                       shardSet(shardSet(newShard, "k1", 1).sh, "k3", 2).sh]
       /\ clock = in.T
       /\ size = in.w1 + in.w2
       /\ now = 0
       /\ rlock = [i \in {0} |-> 0]
       /\ panicked = FALSE
       /\ pc = [t \in Threads |-> "idle"]
       /\ loc = [t \in Threads |-> InitLoc]
       /\ last = [t \in Threads |-> NoCall]
       /\ calls = [t \in Threads |-> 0]
       /\ script = OnlyThread1(<< CallRec("Set", "k2", 1, 1, <<>>, 0) >>, <<>>)
       /\ mode = "aged"
       /\ lastSet = [k \in Keys |-> CASE k = "k1" -> 1 [] k = "k3" -> 2
                                      [] OTHER -> Nil]
       /\ hist = HNew(HNew(NoHistory, 1), 2)

\* The aged caches together with the single-threaded runs.
SpecLhd == (InitAged \/ InitST) /\ [][Next]_vars

\* Both families of initial states.
SpecAll == (Init \/ InitST) /\ [][Next]_vars


\* --------------------------------------------------------------- properties

\* The items the shards hold.
StoredIds ==
    UNION {{shards[i].store[k] : k \in DOMAIN shards[i].store} : i \in ShardIds}

RECURSIVE SumWeights(_)
SumWeights(ids) ==
    IF ids = {} THEN 0
    ELSE LET id == CHOOSE x \in ids : TRUE
         IN  heap[id].weight + SumWeights(ids \ {id})

StoredWeight == SumWeights(StoredIds)

\* The item the shard of key k holds under k (Nil when it holds none).
Lookup(k) == shardGet(shards[getShard(k)], k)

\* Every call has returned.
Quiescent == \A t \in Threads : pc[t] = "idle"

\* This step returns the call of thread t.
Returning(t) == pc[t] # "idle" /\ pc'[t] = "idle"

\* No thread but thread 1 has ever called the cache.
SingleThreaded ==
    \A u \in Threads \ {1} : pc[u] = "idle" /\ last[u] = NoCall

\* ---- C1

\* C1: once every call of every thread has returned, size equals the sum of
\* the weights of the items the shards hold, whatever the interleaving was
\* (a Clear concurrent with a Set or a Delete included).
C1_QuiescentSizeIsStoredWeight == Quiescent => size = StoredWeight

\* ---- C2

Coherent(s) ==
    /\ DOMAIN s.store = DOMAIN s.pos
    /\ Len(s.items) = Cardinality(DOMAIN s.store)
    /\ \A k \in DOMAIN s.pos : s.pos[k] \in 0..(Len(s.items) - 1)
    /\ \A j, k \in DOMAIN s.pos : s.pos[j] = s.pos[k] => j = k
    /\ \A k \in DOMAIN s.store :
          /\ s.items[s.pos[k] + 1] = s.store[k]
          /\ heap[s.store[k]].key = k

\* C2: shard coherence.  Whenever no thread is inside a shard's critical
\* section (every state of the model: a critical section is one step), store
\* and pos have the same keys, items is as long as store, pos maps the keys
\* one-to-one onto 0..len(items)-1, and items[pos[k]] is the very item
\* store[k], whose key is k.
C2_ShardCoherence == \A i \in ShardIds : Coherent(shards[i])

\* A delete or deleteIfSame has moved the last item of a shard into the gap
\* it left, and the shard still holds an item.
C2_SwapRemoveHappened == hist.swapped /\ \E i \in ShardIds : Len(shards[i].items) > 0

\* ---- C3

IsSetReturn(r) == r.op \in {"Set", "Replace"} /\ r.why # ""

\* C3 as the specification states it: when a Set has returned, size (as it
\* was when the Set returned) is at most max_weight, or the eviction loop of
\* that Set ran exactly items_to_prune iterations.
C3_SizeBoundedOrBudgetSpent ==
    \A t \in Threads :
       (last[t].op = "Set" /\ last[t].why # "") =>
          \/ last[t].size <= cfg.MaxWeight
          \/ last[t].iters = cfg.ItemsToPrune

\* C3, amended: when a Set (or the Set inside Replace) has returned, its
\* eviction loop ended in one of three ways: it loaded a size of at most
\* max_weight, or it completed exactly items_to_prune iterations, or its
\* candidate selection found no item to evict (then fewer iterations ran and
\* size may exceed max_weight).
C3_SizeBoundedOrBudgetSpentOrNoCandidate ==
    \A t \in Threads :
       IsSetReturn(last[t]) =>
          /\ last[t].why \in {"size", "budget", "nocand"}
          /\ last[t].why = "size" => last[t].size <= cfg.MaxWeight
          /\ last[t].why = "budget" => last[t].iters = cfg.ItemsToPrune
          /\ last[t].why = "nocand" => last[t].iters < cfg.ItemsToPrune
          /\ \/ last[t].size <= cfg.MaxWeight
             \/ last[t].iters = cfg.ItemsToPrune
             \/ last[t].why = "nocand"

\* A Set has returned with its iterations spent and size above max_weight.
C3_BudgetSpentAboveBound ==
    \E t \in Threads :
       /\ last[t].op = "Set" /\ last[t].why = "budget"
       /\ last[t].size > cfg.MaxWeight

\* ---- C4

\* Thread t is about to call deleteIfSame(k, X) and a Set has replaced X by
\* another item under k.
C4_Displaced(t) ==
    /\ pc[t] = "ev_delete"
    /\ Lookup(heap[loc[t].cand].key) \notin {Nil, loc[t].cand}
    /\ hist.rem[loc[t].cand] = "set"

C4_WeightBooks ==
    \A id \in DOMAIN hist.subs :
       /\ hist.subs[id] <= 1
       /\ hist.subs[id] = 1 => hist.rem[id] \in {"set", "delete", "evict"}
       /\ (Quiescent /\ hist.rem[id] = "set") => hist.subs[id] = 1

C4_FailedRemoval(t) ==
    (C4_Displaced(t) /\ pc'[t] # "ev_delete") =>
       LET k == heap[loc[t].cand].key
       IN  /\ shards' = shards
           /\ size' = size
           /\ pc'[t] # "ev_sub"
           /\ hist'.subs = hist.subs
           /\ shardGet(shards'[getShard(k)], k) = Lookup(k)

\* C4: when an eviction loop has picked X under k and a Set of another
\* thread has replaced X by Y before deleteIfSame(k, X) runs, the
\* deleteIfSame removes nothing, Y stays under k, and the loop subtracts
\* nothing from size; the weight of an item is subtracted at most once, and
\* the weight of an item that a Set displaced has been subtracted exactly
\* once when every call has returned.
C4_DeleteIfSameProtectsReinsert ==
    /\ []C4_WeightBooks
    /\ [][\A t \in Threads : C4_FailedRemoval(t)]_vars

\* A deleteIfSame of an eviction loop has just failed on an item that a Set
\* had displaced; the displacing item is still stored.
C4_EvictionLostRace ==
    \E t \in Threads :
       /\ pc[t] = "ev_check" /\ loc[t].evicted >= 1 /\ loc[t].cand # Nil
       /\ hist.rem[loc[t].cand] = "set"
       /\ Lookup(heap[loc[t].cand].key) \notin {Nil, loc[t].cand}


\* ---- C5

\* The step is the deleteIfSame of an eviction iteration of thread t.
EvictionStep(t) == pc[t] = "ev_delete" /\ pc'[t] # "ev_delete"

\* The cache is in the regime of the deterministic scans.
SmallCache == Cardinality(StoredIds) <= cfg.SampleSize

C5_EvictsOldest(t) ==
    (EvictionStep(t) /\ cfg.EvictionPolicy = SampledLru /\ SmallCache) =>
       LET X == loc[t].cand
       IN  /\ X \in StoredIds
           /\ \A y \in StoredIds \ {X} : heap[X].lastAccess < heap[y].lastAccess
           /\ StoredIds' = StoredIds \ {X}

\* TestCacheEvictsLruWhenOverWeight has returned from its Set of k4.
LruTestDone == mode = "lru" /\ pc[1] = "idle" /\ Len(script[1]) <= 1

C5_LruTestOutcome ==
    LruTestDone =>
       /\ Lookup("k1") = Nil
       /\ Lookup("k2") # Nil /\ Lookup("k3") # Nil /\ Lookup("k4") # Nil

\* C5: in single-threaded use with policy sampled-LRU and at most
\* sample_size items stored, every eviction iteration removes the stored
\* item with the smallest last-access tick; and with max_weight 30 and every
\* weight 10, Set(k1); Set(k2); Set(k3); Get(k2); Set(k4) leaves k1 absent
\* and k2, k3, k4 present.
C5_SmallCacheLruEvictsOldest ==
    /\ []C5_LruTestOutcome
    /\ [][\A t \in Threads : C5_EvictsOldest(t)]_vars

\* The LRU test has run to its end and its last Set evicted an item.
C5_LruTestRan ==
    /\ LruTestDone
    /\ \E id \in DOMAIN hist.rem : hist.rem[id] = "evict"

\* ---- C6

\* max(1, age) * max(1, weight) of an item at tick nowTick.
LhdDenominator(item, nowTick) ==
    Max(IF nowTick > item.createdTick THEN nowTick - item.createdTick ELSE 0, 1)
    * Max(item.weight, 1)

\* a comes before b in the order of the claim: lower hit density, then
\* heavier, then the smaller last-access tick.  a.hits / Da < b.hits / Db is
\* compared as a.hits * Db < b.hits * Da.
LhdBefore(a, b, nowTick) ==
    LET l == a.hits * LhdDenominator(b, nowTick)
        r == b.hits * LhdDenominator(a, nowTick)
    IN  \/ l < r
        \/ l = r /\ a.weight > b.weight
        \/ l = r /\ a.weight = b.weight /\ a.lastAccess < b.lastAccess

C6_EvictsFirst(t) ==
    (EvictionStep(t) /\ cfg.EvictionPolicy = SampledLhd /\ SmallCache) =>
       LET X == loc[t].cand
       IN  /\ X \in StoredIds
           /\ \A y \in StoredIds \ {X} :
                 LhdBefore(heap[X], heap[y], loc[t].nowTick)
           /\ StoredIds' = StoredIds \ {X}

\* TestCacheEvictsLhdWhenOverWeight has returned from its Set of k3.
LhdTestDone == mode = "lhd" /\ pc[1] = "idle" /\ Len(script[1]) <= 3

C6_LhdTestOutcome ==
    LhdTestDone =>
       /\ Lookup("k2") = Nil
       /\ Lookup("k1") # Nil /\ Lookup("k3") # Nil

\* C6: in single-threaded use with policy sampled-LHD and at most
\* sample_size items stored, the item an eviction iteration removes is the
\* stored item that is first under the order: lower
\* hits / (max(1, age) * max(1, weight)), then heavier, then the smaller
\* last-access tick; and with max_weight 20 and every weight 10, Set(k1);
\* Set(k2); ten Get(k1); Set(k3) leaves k2 absent and k1, k3 present.
C6_SmallCacheLhdEvictsFirst ==
    /\ []C6_LhdTestOutcome
    /\ [][\A t \in Threads : C6_EvictsFirst(t)]_vars

\* The LHD test has run to its end and its last Set evicted an item.
C6_LhdTestRan ==
    /\ LhdTestDone
    /\ \E id \in DOMAIN hist.rem : hist.rem[id] = "evict"

\* ---- C7

C7_LookupIsLatestInsert ==
    \A k \in Keys :
       Lookup(k) # Nil =>
          /\ Lookup(k) = lastSet[k]
          /\ heap[Lookup(k)].key = k

\* Thread 1, alone, returns from a Get(k) that follows its Set(k, v, t),
\* t > 0, whose eviction did not remove k.
C7_GetFollowsSet ==
    /\ SingleThreaded
    /\ last[1].op = "Set" /\ last[1].dur > 0
    /\ loc[1].op = "Get" /\ loc[1].key = last[1].key
    /\ Returning(1)
    /\ hist.rem[last[1].item] # "evict"

C7_GetReturnsSetValue ==
    /\ last'[1].item # Nil
    /\ heap'[last'[1].item].value = last[1].value

\* The item of the Set has expired and the cache treats expired items as
\* misses.
C7_SetItemExpired ==
    /\ cfg.ExpirationPolicy = TreatExpiredAsMiss
    /\ Expired(heap[last[1].item], now)

\* C7 as the specification states it: under any interleaving the shard
\* lookup of a stored key returns the item of the most recent shard insert
\* of that key; and in single-threaded use Set(k, v, t), t > 0, followed by
\* Get(k) returns an item of value v when the eviction of the Set did not
\* remove k.
C7_LookupAndGetAfterSet ==
    /\ []C7_LookupIsLatestInsert
    /\ [][C7_GetFollowsSet => C7_GetReturnsSetValue]_vars

\* C7, amended: under any interleaving the shard lookup of a stored key
\* returns the item of the most recent shard insert of that key; and in
\* single-threaded use Set(k, v, t), t > 0, followed by Get(k) returns an
\* item of value v when the eviction of the Set did not remove k and the
\* item has not expired when the Get returns (or the cache is configured to
\* return expired items).
C7_LookupAndGetAfterSetUnexpired ==
    /\ []C7_LookupIsLatestInsert
    /\ [][(C7_GetFollowsSet /\ ~C7_SetItemExpired) => C7_GetReturnsSetValue]_vars

\* Thread 1, alone, has made a Set of positive duration and its next call, a
\* Get of the same key, has found the item of that Set.
C7_GetFoundSetItem ==
    /\ SingleThreaded
    /\ last[1].op = "Set" /\ last[1].dur > 0
    /\ pc[1] = "get_hit" /\ loc[1].op = "Get"
    /\ loc[1].item = last[1].item

\* ---- C8

C8_DeletedStaysAbsent == \A k \in Keys : hist.deleted[k] => Lookup(k) = Nil

C8_ReadsMiss(t) ==
    (/\ loc[t].op \in {"Get", "Peek"}
     /\ hist.deleted[loc[t].key]
     /\ Returning(t)) => last'[t].item = Nil

C8_DeleteRemovesOne(t) ==
    (/\ pc[t] = "del_shard" /\ pc'[t] # "del_shard"
     /\ Lookup(loc[t].key) # Nil) =>
       LET k == loc[t].key
       IN  /\ pc'[t] = "del_sub"
           /\ StoredIds' = StoredIds \ {Lookup(k)}
           /\ Cardinality(StoredIds') = Cardinality(StoredIds) - 1
           /\ \A j \in Keys \ {k} :
                 shardGet(shards'[getShard(j)], j) = Lookup(j)
           /\ heap' = heap

C8_DeleteSubtracts(t) ==
    (pc[t] = "del_sub" /\ pc'[t] # "del_sub") =>
       /\ size' = size - heap[loc[t].old].weight
       /\ shards' = shards
       /\ pc'[t] = "idle"

\* C8: in single-threaded use, from the return of Delete(k) to the next
\* Set(k, ...) the key is not stored and Get(k) and Peek(k) return none; a
\* Delete of a stored key lowers the item count by one and size by the
\* weight of the item, and leaves the item of every other key in place.
C8_DeleteRemovesKey ==
    /\ []C8_DeletedStaysAbsent
    /\ [][\A t \in Threads : /\ C8_ReadsMiss(t)
                             /\ C8_DeleteRemovesOne(t)
                             /\ C8_DeleteSubtracts(t)]_vars

\* A Delete has removed a stored item of key k and a later Get(k) has
\* returned.
C8_GetAfterDelete ==
    \E k \in Keys :
       /\ hist.deleted[k]
       /\ last[1].op = "Get" /\ last[1].key = k
       /\ \E id \in DOMAIN hist.rem :
             hist.rem[id] = "delete" /\ heap[id].key = k

\* ---- C9

\* Thread 1 returns from a Get(k) that follows its Replace(k, v2) of a
\* stored key.
C9_GetFollowsReplace ==
    /\ last[1].op = "Replace" /\ last[1].res = 1
    /\ loc[1].op = "Get" /\ loc[1].key = last[1].key
    /\ Returning(1)

C9_GetReturnsNewValue ==
    /\ last'[1].item # Nil
    /\ heap'[last'[1].item].value = last[1].value

C9_ReplaceAbsent(t) ==
    (/\ pc[t] = "rep_peek" /\ pc'[t] # "rep_peek"
     /\ Lookup(loc[t].key) = Nil) =>
       /\ pc'[t] = "idle" /\ last'[t].op = "Replace" /\ last'[t].res = 0
       /\ shards' = shards /\ heap' = heap
       /\ size' = size
       /\ clock' = clock

\* The new item has expired and the cache treats expired items as misses.
C9_NewItemExpired ==
    /\ cfg.ExpirationPolicy = TreatExpiredAsMiss
    /\ Expired(heap[last[1].item], now)

\* The eviction run by the Replace removed the item the Replace stored.
C9_NewItemEvicted == hist.rem[last[1].item] = "evict"

\* C9 as the specification states it, read for a Get at which the item has
\* not expired: in single-threaded use, after Set(k, v1, t) and
\* Replace(k, v2), Get(k) returns an item of value v2, for every value and
\* every weigher; and Replace on a key that is not stored returns false and
\* changes neither the shards, nor size, nor the access clock.
C9_ReplaceThenGet ==
    [][/\ (C9_GetFollowsReplace /\ ~C9_NewItemExpired) => C9_GetReturnsNewValue
       /\ \A t \in Threads : C9_ReplaceAbsent(t)]_vars

\* C9, amended: in single-threaded use, after Set(k, v1, t) and
\* Replace(k, v2), Get(k) returns an item of value v2 provided the eviction
\* run by the Replace did not remove the new item and the new item (which
\* inherits the remaining time to live) has not expired when the Get returns
\* (or the cache returns expired items); and Replace on a key that is not
\* stored returns false and changes neither the shards, nor size, nor the
\* access clock.
C9_ReplaceThenGetIfKept ==
    [][/\ (C9_GetFollowsReplace /\ ~C9_NewItemExpired /\ ~C9_NewItemEvicted)
            => C9_GetReturnsNewValue
       /\ \A t \in Threads : C9_ReplaceAbsent(t)]_vars

\* A Replace of a stored key has returned and the Get of the same key that
\* follows has found the item the Replace stored.
C9_GetFoundReplacedItem ==
    /\ last[1].op = "Replace" /\ last[1].res = 1
    /\ pc[1] = "get_hit" /\ loc[1].op = "Get"
    /\ loc[1].item = last[1].item

\* ---- C10

C10_ExtendAbsent(t) ==
    (/\ pc[t] = "ext_peek" /\ pc'[t] # "ext_peek"
     /\ Lookup(loc[t].key) = Nil) =>
       /\ pc'[t] = "idle" /\ last'[t].op = "Extend" /\ last'[t].res = 0
       /\ shards' = shards /\ heap' = heap
       /\ size' = size
       /\ clock' = clock

C10_ExtendStored(t) ==
    /\ (/\ pc[t] = "ext_peek" /\ pc'[t] # "ext_peek"
        /\ Lookup(loc[t].key) # Nil) => pc'[t] = "ext_store"
    /\ (pc[t] = "ext_store" /\ pc'[t] # "ext_store") =>
          /\ heap'[loc[t].item].expires = now + loc[t].dur
          /\ loc[t].t0 <= now
    /\ (loc[t].op = "Extend" /\ pc[t] # "ext_peek" /\ Returning(t)) =>
          last'[t].res = 1

\* After the latest Extend(k, d) of an item, made at time at in a call
\* entered at time t0, TTL is d minus the time elapsed since at.
C10_TTLAfterExtend ==
    \A id \in DOMAIN hist.ext :
       hist.ext[id] # <<>> =>
          LET at == hist.ext[id][1]
              d == hist.ext[id][2]
              t0 == hist.ext[id][3]
          IN  /\ TTL(heap[id], now) = d - (now - at)
              /\ TTL(heap[id], now) <= d
              /\ TTL(heap[id], now) >= d - (now - t0)

\* C10: Extend(k, d) on a key that is not stored returns false and changes
\* nothing; on a stored key it returns true and sets the expiration of the
\* item to the time of the call plus d, so that a TTL read e time units
\* later is d - e: at most d, and at least d minus the time elapsed since
\* the call was entered.
C10_ExtendSetsExpiration ==
    /\ []C10_TTLAfterExtend
    /\ [][\A t \in Threads : C10_ExtendAbsent(t) /\ C10_ExtendStored(t)]_vars

\* An Extend of a stored key has returned true and time has passed since.
C10_ExtendedAndTimePassed ==
    /\ last[1].op = "Extend" /\ last[1].res = 1
    /\ hist.ext[last[1].item] # <<>>
    /\ now > hist.ext[last[1].item][1]


\* ---- C11

\* Cache.ItemCount: the sum of itemCount over the shards, in index order.
RECURSIVE CountFrom(_)
CountFrom(i) ==
    IF i >= NumShards(cfg) THEN 0 ELSE itemCount(shards[i]) + CountFrom(i + 1)

ItemCount == CountFrom(0)

\* Cache.Len and Cache.IsEmpty
CacheLen == ItemCount

IsEmpty == CacheLen = 0

\* Thread t takes a step.
Moves(t) == pc'[t] # pc[t] \/ loc'[t] # loc[t]

C11_EmptyAfterClear(t) ==
    (pc[t] = "clr_size" /\ Returning(t)) =>
       /\ CacheLen' = 0
       /\ IsEmpty'
       /\ size' = 0
       /\ \A k \in Keys : shardGet(shards'[getShard(k)], k) = Nil

C11_ReadsMissAfterClear(t) ==
    (/\ last[t].op = "Clear"
     /\ loc[t].op \in {"Get", "Peek"}
     /\ Returning(t)) => last'[t].item = Nil

C11_SecondClearChangesNothing(t) ==
    (/\ last[t].op = "Clear"
     /\ loc[t].op = "Clear"
     /\ Moves(t)) => UNCHANGED <<shards, size, heap, clock>>

\* C11: in single-threaded use, when Clear returns Len() is 0, IsEmpty() is
\* true, size is 0 and no key is stored; a Get or Peek that follows returns
\* none; and a second Clear right after the first changes nothing.
C11_ClearEmptiesAndIsIdempotent ==
    [][\A t \in Threads : /\ C11_EmptyAfterClear(t)
                          /\ C11_ReadsMissAfterClear(t)
                          /\ C11_SecondClearChangesNothing(t)]_vars

\* A Clear has removed stored items and a second Clear is about to return.
C11_SecondClearRuns ==
    /\ last[1].op = "Clear"
    /\ pc[1] = "clr_size"
    /\ \E id \in DOMAIN hist.rem : hist.rem[id] = "clear"


\* ---- C12

\* Thread t, in a Get or Peek of its own, is at the expiration check of a
\* stored item whose expiration lies before the current time.
C12_ChecksExpiredItem(t) ==
    /\ loc[t].op \in {"Get", "Peek"}
    /\ pc[t] \in {"get_expired", "peek_expired"}
    /\ Moves(t)
    /\ heap[loc[t].item].expires < now

C12_ExpiredRead(t) ==
    C12_ChecksExpiredItem(t) =>
       IF cfg.ExpirationPolicy = TreatExpiredAsMiss
       THEN Returning(t) /\ last'[t].item = Nil
       ELSE IF loc[t].op = "Peek"
       THEN Returning(t) /\ last'[t].item = loc[t].item
       ELSE pc'[t] = "get_tick" /\ loc'[t].item = loc[t].item

\* A Get that passed the expiration check returns the item it found.
C12_GetReturnsFound(t) ==
    (loc[t].op = "Get" /\ pc[t] = "get_hit" /\ Moves(t)) =>
       Returning(t) /\ last'[t].item = loc[t].item

C12_ReadKeepsItem(t) ==
    (loc[t].op \in {"Get", "Peek"} /\ Moves(t)) =>
       UNCHANGED <<shards, size>>

IssuedTicks ==
    (DOMAIN heap)
      \cup {heap[i].createdTick : i \in DOMAIN heap}
      \cup {heap[i].lastAccess : i \in DOMAIN heap}
      \cup {loc[t].tick : t \in Threads}

\* Thread t is at its nextTick call (in Set, in a Get hit, in an Extend hit).
CallsNextTick(t) ==
    pc[t] \in {"set_begin", "get_tick", "ext_tick"} /\ Moves(t)

\* The tick the step of thread t received from nextTick.
TickReceived(t) ==
    IF pc[t] = "set_begin" THEN loc'[t].item ELSE loc'[t].tick

C13_TickIsFresh(t) ==
    CallsNextTick(t) =>
       /\ TickReceived(t) = clock'
       /\ clock' > clock
       /\ \A v \in IssuedTicks : TickReceived(t) > v

\* C13: the access clock issues strictly increasing ticks across all
\* threads: the tick a nextTick call returns is larger than every tick
\* returned before (so no two calls get the same tick, and a call that starts
\* after another has returned gets the larger one), and only nextTick moves
\* the clock.
C13_TicksStrictlyIncrease ==
    [][/\ \A t \in Threads : C13_TickIsFresh(t)
       /\ clock' # clock => \E t \in Threads : CallsNextTick(t)]_vars

\* Both threads hold a tick: one from a Set, one from a Get hit in flight.
C13_TwoThreadsDrewTicks ==
    /\ pc[1] = "get_hit"
    /\ pc[2] = "set_shard"
    /\ loc[1].tick # 0
    /\ loc[2].item # Nil


\* ---- C14

\* scanOldest / scanLeastHitDense over the shards from index i on: the
\* candidates the scan can end with, starting from the accumulators accs.
RECURSIVE ScanFrom(_, _)
ScanFrom(i, accs) ==
    IF i >= NumShards(cfg) THEN {a[1] : a \in accs}
    ELSE LET ids == {shards[i].store[k] : k \in DOMAIN shards[i].store}
         IN  ScanFrom(i + 1,
                 UNION {{scanShard(cfg.EvictionPolicy, heap, a, order,
                                   IF clock = 0 THEN 1 ELSE clock) :
                            order \in Perms(ids)} : a \in accs})

\* The victims an eviction that starts in this state can pick by scanning.
ScanVictims == ScanFrom(0, {<<Nil, 0>>})

\* C14: Peek has no effect on eviction state: no step of a Peek changes an
\* item (last-access tick and hits included), the access clock, the size
\* counter or a shard, so the victims an eviction can pick are the same
\* after the Peek as before it.
C14_PeekLeavesEvictionState ==
    [][\A t \in Threads :
          (loc[t].op = "Peek" /\ Moves(t)) =>
             /\ UNCHANGED <<heap, clock, size, shards>>
             /\ ScanVictims' = ScanVictims]_vars

\* A Peek found its item, and the Set that follows it is evicting.
C14_EvictionAfterPeekHit ==
    /\ last[1].op = "Peek" /\ last[1].item # Nil
    /\ loc[1].op = "Set" /\ pc[1] = "ev_delete"


\* ---- C15

\* Item id has a key that contains the pattern.
Matches(id, pat) == Contains(KeyBytes(heap[id].key), pat)

\* What Filter returns, on the step on which it returns: no item twice; only
\* stored items with a matching key that were unexpired when the call began
\* (or any, under return-expired); every stored matching item that is still
\* unexpired when the call returns (or every one, under return-expired).
C15_FilterResult(t) ==
    (loc[t].op = "Filter" /\ Returning(t)) =>
       LET out == last'[t].out
           pat == loc[t].pat
           keep == cfg.ExpirationPolicy = ReturnExpired
       IN  /\ \A i, j \in 1..Len(out) : out[i] = out[j] => i = j
           /\ \A i \in 1..Len(out) :
                 /\ out[i] \in StoredIds
                 /\ Matches(out[i], pat)
                 /\ keep \/ ~Expired(heap[out[i]], loc[t].t0)
           /\ \A id \in StoredIds :
                 (Matches(id, pat) /\ (keep \/ ~Expired(heap[id], now)))
                    => \E i \in 1..Len(out) : out[i] = id

\* What a step of Filter does to the items: it changes an item only in the
\* hit of the Get on a matching key, where it stores a fresh tick as the last
\* access, raises hits by one and appends the item to the result; the result
\* grows on no other step.
C15_FilterTouches(t) ==
    (loc[t].op = "Filter" /\ Moves(t)) =>
       /\ DOMAIN heap' = DOMAIN heap
       /\ \A id \in DOMAIN heap :
             heap'[id] # heap[id] =>
                /\ pc[t] = "get_hit" /\ loc[t].item = id
                /\ Matches(id, loc[t].pat)
                /\ heap'[id] = [heap[id] EXCEPT !.lastAccess = loc[t].tick,
                                                !.hits = @ + 1]
                /\ \A x \in DOMAIN heap : loc[t].tick > heap[x].lastAccess
       /\ ~Returning(t) =>
             IF pc[t] = "get_hit"
             THEN /\ loc'[t].out = Append(loc[t].out, loc[t].item)
                  /\ heap'[loc[t].item] # heap[loc[t].item]
             ELSE loc'[t].out = loc[t].out

\* C15: in single-threaded use Filter(p) returns, exactly once each, the
\* stored items whose key contains p and that Get returns (none when no key
\* matches); each returned item was touched like a Get hit, and the items
\* whose key does not match were not touched.
C15_FilterReturnsMatchesTouched ==
    [][\A t \in Threads : C15_FilterResult(t) /\ C15_FilterTouches(t)]_vars

\* Filter returned one item while two are stored: one key matched, one not.
C15_FilterKeptOneOfTwo ==
    /\ pc[1] = "idle"
    /\ last[1].op = "Filter" /\ Len(last[1].out) = 1
    /\ Cardinality(StoredIds) = 2
    /\ heap[last[1].out[1]].hits > 0


\* ---- C16

\* The keys of the stored entries.
StoredKeys == UNION {DOMAIN shards[i].store : i \in ShardIds}

\* C16: in single-threaded use Range(fn), where fn returns false on its
\* stop-th call (never, if stop is 0), calls fn once for every stored entry
\* while fn returns true, delivers the entries of a lower-indexed shard
\* before those of a higher-indexed one, and calls fn for no entry after the
\* first false return.  out is the sequence of keys fn was called with.
C16_RangeVisitsInShardOrderUntilFalse ==
    [][\A t \in Threads :
          (loc[t].op = "Range" /\ Returning(t)) =>
             LET out == last'[t].out
                 stop == loc[t].stop
             IN  /\ \A i, j \in 1..Len(out) : out[i] = out[j] => i = j
                 /\ \A i \in 1..Len(out) : out[i] \in StoredKeys
                 /\ \A i, j \in 1..Len(out) :
                       i < j => getShard(out[i]) <= getShard(out[j])
                 /\ \A k \in StoredKeys :
                       (\A i \in 1..Len(out) : out[i] # k) =>
                          \A i \in 1..Len(out) : getShard(out[i]) <= getShard(k)
                 /\ Len(out) = IF stop = 0 THEN Cardinality(StoredKeys)
                               ELSE Min(stop, Cardinality(StoredKeys))]_vars

\* Range has stopped after one entry of a cache that holds entries in two
\* shards.
C16_RangeStoppedEarly ==
    /\ pc[1] = "idle"
    /\ last[1].op = "Range" /\ Len(last[1].out) = 1
    /\ \E k1, k2 \in StoredKeys : getShard(k1) # getShard(k2)


\* ---- C17

\* C17: operations on one key are linearizable: when one Replace(k, v2) and
\* one concurrent Delete(k) have both returned, the outcome is that of
\* Replace then Delete (true, k absent) or of Delete then Replace (false, k
\* absent): in either case k is absent.
C17_ReplaceDeleteLeavesKeyAbsent ==
    \A t, u \in Threads :
       ( /\ Quiescent
         /\ t # u
         /\ last[t].op = "Replace"
         /\ last[u].op = "Delete"
         /\ last[u].key = last[t].key )
       => /\ last[t].res \in {0, 1}
          /\ Lookup(last[t].key) = Nil


\* ---- C18

\* Some call is in progress.
CallRunning == \E t \in Threads : pc[t] # "idle"

\* C18: deadlock freedom.  Whenever calls are in progress, the thread of at
\* least one of them can take its next step (so that, under fair scheduling,
\* every call returns); in particular a Filter whose callback takes the read
\* lock of the shard it iterates again, in Get, is never stuck behind a
\* thread that waits for the write lock of that shard.
C18_SomeRunningCallCanStep ==
    CallRunning => \E t \in Threads : pc[t] # "idle" /\ ENABLED Step(t)


\* ---- C19

\* Thread t is inside evictIfNeeded.
InEviction(t) ==
    pc[t] \in {"ev_check", "pick_count", "sample", "scan", "ev_delete", "ev_sub"}

\* removed counts the items the eviction loop of the running Set has taken
\* out of the shards: a step of the loop removes an item only in
\* deleteIfSame, only the candidate, and counts it.
C19_RemovedCountsEvictions(t) ==
    (InEviction(t) /\ Moves(t)) =>
       LET gone == StoredIds \ StoredIds'
       IN  /\ gone \subseteq (IF pc[t] = "ev_delete" THEN {loc[t].cand} ELSE {})
           /\ StoredIds' \subseteq StoredIds
           /\ IF gone # {}
              THEN loc'[t].removed = loc[t].removed + 1
              ELSE Returning(t) \/ loc'[t].removed = loc[t].removed

\* C19: one Set evicts at most items_to_prune items: its eviction loop runs
\* at most items_to_prune iterations, and an iteration removes at most one
\* item.
C19_SetEvictsAtMostItemsToPrune ==
    [][\A t \in Threads :
          /\ C19_RemovedCountsEvictions(t)
          /\ InEviction(t) =>
                /\ loc[t].evicted < cfg.ItemsToPrune
                /\ loc[t].removed
                      <= loc[t].evicted + (IF pc[t] = "ev_sub" THEN 1 ELSE 0)
                /\ loc[t].removed <= cfg.ItemsToPrune
          /\ (Returning(t) /\ InEviction(t)) =>
                last'[t].iters <= cfg.ItemsToPrune]_vars

\* A Set has just removed its second item, with items_to_prune = 2.
C19_BudgetOfTwoSpent ==
    \E t \in Threads :
       /\ pc[t] = "ev_sub"
       /\ cfg.ItemsToPrune = 2
       /\ loc[t].removed = 2


\* ---- C20

IsPowerOfTwo(x) == \E e \in 0..30 : x = 2 ^ e

\* A configuration as Build promises it.
Normalized(b) ==
    /\ b.Shards > 0 /\ IsPowerOfTwo(b.Shards)
    /\ b.MaxWeight > 0
    /\ b.ItemsToPrune > 0
    /\ b.SampleSize > 0
    /\ b.EvictionPolicy \in {SampledLru, SampledLhd}
    /\ b.ExpirationPolicy \in {TreatExpiredAsMiss, ReturnExpired}

\* b keeps the valid fields of c and holds the default in place of the others.
RepairedFrom(c, b) ==
    /\ b.Shards = IF c.Shards > 0 /\ IsPowerOfTwo(c.Shards)
                  THEN c.Shards ELSE DefaultShards
    /\ b.MaxWeight = IF c.MaxWeight > 0 THEN c.MaxWeight ELSE DefaultMaxWeight
    /\ b.ItemsToPrune = IF c.ItemsToPrune > 0 THEN c.ItemsToPrune
                        ELSE DefaultItemsToPrune
    /\ b.SampleSize = IF c.SampleSize > 0 THEN c.SampleSize
                      ELSE DefaultSampleSize
    /\ b.EvictionPolicy = IF c.EvictionPolicy \in {SampledLru, SampledLhd}
                          THEN c.EvictionPolicy ELSE SampledLru
    /\ b.ExpirationPolicy =
          IF c.ExpirationPolicy \in {TreatExpiredAsMiss, ReturnExpired}
          THEN c.ExpirationPolicy ELSE TreatExpiredAsMiss
    /\ b.Weigher = c.Weigher

\* C20: Config.Build normalizes every input, the most negative integer
\* included: the configuration of the cache is normalized, and for every
\* input c, Build(c) is normalized, keeps the valid fields of c, puts the
\* defaults in place of the others, and is a fixed point of Build.
C20_BuildNormalizes ==
    /\ Normalized(cfg)
    /\ \A c \in BuildInputs :
          /\ Normalized(Build(c))
          /\ RepairedFrom(c, Build(c))
          /\ Build(Build(c)) = Build(c)


\* ---- C21

\* C21: the last-access tick of an item never decreases during the item's
\* lifetime, under any interleaving of concurrent Get, Extend and Filter
\* calls on its key.
C21_LastAccessNeverDecreases ==
    [][\A id \in DOMAIN heap :
          heap'[id].lastAccess >= heap[id].lastAccess]_vars


\* ---- C22

\* Thread 1, alone, returns from a Get(k) or Peek(k) that follows its
\* Set(k, v, 0), in a cache that treats expired items as misses.
C22_ReadFollowsZeroTTLSet ==
    /\ SingleThreaded
    /\ cfg.ExpirationPolicy = TreatExpiredAsMiss
    /\ last[1].op = "Set" /\ last[1].dur = 0
    /\ loc[1].op \in {"Get", "Peek"} /\ loc[1].key = last[1].key
    /\ Returning(1)

\* C22: a Set with TTL zero inserts an already-expired item: under
\* treat-expired-as-miss the Get(k) or Peek(k) that follows it returns none,
\* also when no time has passed since the Set.
C22_ZeroTTLItemIsAMiss ==
    [][C22_ReadFollowsZeroTTLSet => last'[1].item = Nil]_vars


\* ---- C23

\* Both threads have returned from a Get that found the same item.  In the
\* concurrent runs nothing else has touched it: before these two calls only
\* the Sets of the set-up program ran.
C23_TwoGetsSameItem ==
    /\ mode = "conc"
    /\ Quiescent
    /\ \A t \in Threads : last[t].op = "Get"
    /\ last[1].item # Nil
    /\ last[2].item = last[1].item

\* The counter moves only in the hit of a Get, by one, and every hit of a Get
\* moves it.
C23_HitCounted ==
    /\ \A id \in DOMAIN heap :
          heap'[id].hits # heap[id].hits =>
             /\ heap'[id].hits = heap[id].hits + 1
             /\ \E t \in Threads :
                   pc[t] = "get_hit" /\ loc[t].item = id /\ Moves(t)
    /\ \A t \in Threads :
          (pc[t] = "get_hit" /\ Moves(t)) =>
             heap'[loc[t].item].hits = heap[loc[t].item].hits + 1

\* C23: no hit is lost: when N Gets of concurrent threads have each returned
\* the same item and nothing else touched it, its hits counter has grown by
\* exactly N (here N = NThreads, from 0).
C23_NoHitIsLost ==
    /\ [](C23_TwoGetsSameItem => heap[last[1].item].hits = NThreads)
    /\ [][C23_HitCounted]_vars

\* Two concurrent Gets have returned the same item, the one that drew the
\* later tick having stored it first.
C23_TwoOverlappingGetsReturned ==
    /\ C23_TwoGetsSameItem
    /\ heap[last[1].item].lastAccess < clock


\* ---- C24

\* C24: Extend on a stored key counts as a hit event: on the step on which
\* it returns true it has stored the tick it drew into the item's last-access
\* tick and raised the item's hits counter by one, as a Get hit does.
C24_ExtendCountsAsHit ==
    [][\A t \in Threads :
          (loc[t].op = "Extend" /\ pc[t] = "ext_touch" /\ Returning(t)) =>
             LET id == loc[t].item
             IN  /\ last'[t].res = 1
                 /\ heap'[id].lastAccess = loc[t].tick
                 /\ heap'[id].hits = heap[id].hits + 1]_vars


\* ---- C25

\* The calls that never evict.  (Len and ItemCount only read the shards;
\* they are operators of the model, not steps.)
NonEvictingOps == {"Get", "Peek", "Extend", "Range", "Filter", "Delete"}

\* C25: eviction runs only inside Set (and Replace, which calls Set): no
\* step of a Get, Peek, Extend, Range, Filter or Delete removes an item
\* other than the one stored under Delete's own key, or adds one, whatever
\* size is.
C25_OnlySetEvicts ==
    [][\A t \in Threads :
          (loc[t].op \in NonEvictingOps /\ Moves(t)) =>
             /\ StoredIds' \subseteq StoredIds
             /\ (StoredIds \ StoredIds') \subseteq
                   (IF loc[t].op = "Delete" THEN {Lookup(loc[t].key)} ELSE {})
             /\ loc[t].op # "Delete" => shards' = shards]_vars

\* A Get is about to return its item while size exceeds max_weight.
C25_GetHitAboveMaxWeight ==
    /\ SingleThreaded
    /\ pc[1] = "get_hit" /\ loc[1].op = "Get"
    /\ size > cfg.MaxWeight


\* ---- C26

\* The number of shards New allocated.
ShardCount == Cardinality(DOMAIN shards)

C26_RoutingInRange ==
    /\ NumShards(cfg) >= 1 /\ NumShards(cfg) <= MaxInt
    /\ IsPowerOfTwo(NumShards(cfg))
    /\ DOMAIN shards = 0..(NumShards(cfg) - 1)
    /\ shardMask = ShardCount - 1
    /\ \A k \in Keys :
          /\ getShard(k) \in DOMAIN shards
          /\ getShard(k) = DigestLo[k] % ShardCount
    /\ \A i \in DOMAIN shards :
          \A k \in DOMAIN shards[i].store : i = getShard(k)

PickStep(t) == pc[t] \in {"sample", "scan"} /\ Moves(t)

\* C27: in single-threaded use candidate selection finds a victim whenever
\* one exists: pickEvictionCandidate returns none (and evictIfNeeded ends)
\* only if every shard is empty; a sampled path that drew no item goes on to
\* the full scan; a candidate returned is an item stored in the cache.
C27_CandidateFoundWhenStored ==
    [][\A t \in Threads :
          (SingleThreaded /\ PickStep(t)) =>
             /\ Returning(t) => StoredIds = {}
             /\ pc'[t] = "ev_delete" => loc'[t].cand \in StoredIds
             /\ StoredIds # {} => pc'[t] \in {"sample", "scan", "ev_delete"}
             /\ (pc[t] = "sample" /\ pc'[t] # "sample") =>
                   IF loc'[t].best = Nil
                   THEN pc'[t] = "scan" /\ loc'[t].idx = 0
                   ELSE pc'[t] = "ev_delete"]_vars

\* The sampled path has made all its draws from empty shards and the full
\* scan has begun, with items stored.
C27_FellBackToScan ==
    /\ SingleThreaded
    /\ pc[1] = "scan"
    /\ loc[1].draws = cfg.SampleSize
    /\ loc[1].best = Nil
    /\ StoredIds # {}


\* ---- C28

\* Item a is at least as good a victim as item b under the policy of the
\* cache.
VictimBefore(a, b, nowTick) ==
    IF cfg.EvictionPolicy = SampledLhd
    THEN ~lhdIsBetterCandidate(heap[b], heap[a], nowTick)
    ELSE heap[a].lastAccess <= heap[b].lastAccess

\* The path pickEvictionCandidate takes depends on the item count alone.
C28_SampledIffMany(t) ==
    (pc[t] = "pick_count" /\ pc'[t] # "pick_count") =>
       (pc'[t] = "sample") = (ItemCount > cfg.SampleSize)

\* One draw: the item drawn, if any, is an item of some shard's sequence, and
\* the best so far is a drawn item no drawn item beats.
C28_Draw(t) ==
    (pc[t] = "sample" /\ Moves(t)) =>
       LET l == loc'[t]
       IN  /\ l.draws = loc[t].draws + 1
           /\ l.draws <= cfg.SampleSize
           /\ loc[t].drawn \subseteq l.drawn
           /\ Cardinality(l.drawn \ loc[t].drawn) <= 1
           /\ l.drawn \subseteq StoredIds
           /\ IF l.drawn = {} THEN l.best = Nil
              ELSE /\ l.best \in l.drawn
                   /\ \A d \in l.drawn : VictimBefore(l.best, d, l.nowTick)

\* The end of the sampled path: all sample_size draws made; the victim is
\* the best drawn item; with nothing drawn the full scan follows.
C28_SampledVictim(t) ==
    (pc[t] = "sample" /\ pc'[t] # "sample") =>
       /\ loc'[t].draws = cfg.SampleSize
       /\ IF loc'[t].drawn = {} THEN pc'[t] = "scan"
          ELSE /\ pc'[t] = "ev_delete"
               /\ loc'[t].cand = loc'[t].best
               /\ loc'[t].cand \in loc'[t].drawn

\* C28: in single-threaded use, when the item count exceeds sample_size an
\* eviction iteration makes sample_size draws (a shard, then an index modulo
\* the length of its sequence), ignores the draws from empty shards, and its
\* victim is the drawn item with the smallest last-access tick (sampled-LRU)
\* or the drawn item no other drawn item beats under the LHD order
\* (sampled-LHD); it is never an item that was not drawn.
C28_SampledPathPicksBestDrawn ==
    [][\A t \in Threads :
          SingleThreaded =>
             /\ C28_SampledIffMany(t)
             /\ C28_Draw(t)
             /\ C28_SampledVictim(t)]_vars

\* The sampled path has drawn two different items and chosen its victim.
C28_VictimOfTwoDrawn ==
    /\ SingleThreaded
    /\ pc[1] = "ev_delete"
    /\ cfg.SampleSize = 2
    /\ Cardinality(loc[1].drawn) = 2
    /\ loc[1].cand \in loc[1].drawn


\* ---- C29

\* hits_a / (age_a * w_a) < hits_b / (age_b * w_b) in exact arithmetic.
DensityLess(a, b, nowTick) ==
    a.hits * LhdDenominator(b, nowTick) < b.hits * LhdDenominator(a, nowTick)

\* C29: the LHD comparison is exact: for every pair of items of the cache,
\* at the current tick, lhdIsBetterCandidate(A, B) is true when the hit
\* density of A is lower than that of B in exact arithmetic and false when it
\* is higher, and the denominator lhdStats computes is the exact product
\* age * weight (nothing wraps round).
C29_LhdComparisonExact ==
    LET nowTick == IF clock = 0 THEN 1 ELSE clock
    IN  \A a, b \in DOMAIN heap :
           /\ lhdStats(heap[a], nowTick)[2] = LhdDenominator(heap[a], nowTick)
           /\ DensityLess(heap[a], heap[b], nowTick)
                 => lhdIsBetterCandidate(heap[a], heap[b], nowTick)
           /\ DensityLess(heap[b], heap[a], nowTick)
                 => ~lhdIsBetterCandidate(heap[a], heap[b], nowTick)


\* ---- C30

\* The raw peek of Replace and Extend finds a stored key whether or not its
\* item has expired: the call goes on instead of returning false.
C30_RawPeekFindsStored(t) ==
    (pc[t] \in {"rep_peek", "ext_peek"} /\ Moves(t)
     /\ Lookup(loc[t].key) # Nil) => ~Returning(t)

\* Having found the key, Replace and Extend return true.
C30_ReturnsTrue(t) ==
    (loc[t].op \in {"Replace", "Extend"} /\ Returning(t)
     /\ pc[t] \notin {"rep_peek", "ext_peek"}) => last'[t].res = 1

\* Get reports the expired item as a miss.
C30_GetMissesExpired(t) ==
    (loc[t].op = "Get" /\ pc[t] = "get_expired" /\ Moves(t)
     /\ cfg.ExpirationPolicy = TreatExpiredAsMiss
     /\ heap[loc[t].item].expires < now) =>
       Returning(t) /\ last'[t].item = Nil

\* Thread 1, alone, returns from a Get(k) that follows its successful
\* Extend(k, d), d > 0.
C30_GetFollowsExtend ==
    /\ SingleThreaded
    /\ last[1].op = "Extend" /\ last[1].res = 1 /\ last[1].dur > 0
    /\ loc[1].op = "Get" /\ loc[1].key = last[1].key
    /\ Returning(1)

\* The extended item has expired again and expired items are misses.
C30_ExpiredAgain ==
    /\ cfg.ExpirationPolicy = TreatExpiredAsMiss
    /\ Expired(heap[last[1].item], now)

C31_DeleteAbsent(t) ==
    (/\ pc[t] = "del_shard" /\ pc'[t] # "del_shard"
     /\ Lookup(loc[t].key) = Nil) =>
       /\ shards' = shards
       /\ size' = size
       /\ Returning(t)
       /\ last'[t].item = Nil

\* deleteIfSame(k, expected) when k is absent or stores a different item.
C31_DeleteIfSameMisses(t) ==
    (/\ pc[t] = "ev_delete" /\ pc'[t] # "ev_delete"
     /\ Lookup(heap[loc[t].cand].key) # loc[t].cand) =>
       /\ shards' = shards
       /\ size' = size
       /\ pc'[t] # "ev_sub"
       /\ (IF pc'[t] = "idle" THEN last'[t].size ELSE size') = size
       /\ pc'[t] # "idle" => loc'[t].removed = loc[t].removed

\* C31: a removal that finds nothing to remove is a no-op.  Delete(k) of a
\* key that is not stored, and deleteIfSame(k, expected) when k is absent or
\* stores another item, leave store, items and pos of the shard and the size
\* counter as they were, and answer none / false.
C31_FailedRemovalIsNoOp ==
    [][\A t \in Threads : /\ C31_DeleteAbsent(t)
                          /\ C31_DeleteIfSameMisses(t)]_vars

\* An eviction loop's deleteIfSame has just found the key of its candidate
\* absent: a Delete of another thread had removed the candidate.
C31_CandidateWasDeleted ==
    \E t \in Threads :
       /\ pc[t] = "ev_check" /\ loc[t].evicted >= 1 /\ loc[t].cand # Nil
       /\ hist.rem[loc[t].cand] = "delete"
       /\ Lookup(heap[loc[t].cand].key) = Nil


\* ---- C32

\* The item a Set builds: a new entry whose created tick and last-access
\* tick are the tick this Set draws, without hits, expiring at now plus the
\* duration handed to Set.
C32_FreshItem(t) ==
    (pc[t] = "set_begin" /\ pc'[t] # "set_begin") =>
       LET id == loc'[t].item
       IN  /\ clock' = nextTick
           /\ id = clock'
           /\ id \notin DOMAIN heap
           /\ heap'[id].createdTick = id
           /\ heap'[id].lastAccess = id
           /\ heap'[id].hits = 0
           /\ heap'[id].expires = now + loc[t].dur
           /\ heap'[id].weight = Weigh(cfg.Weigher, loc[t].key, loc[t].value)
           /\ \A old \in DOMAIN heap : heap'[old] = heap[old]

\* shard.set on a key that is stored.
C32_ReplacesInPlace(t) ==
    (/\ pc[t] = "set_shard" /\ pc'[t] # "set_shard"
     /\ Lookup(loc[t].key) # Nil) =>
       LET k == loc[t].key
           i == getShard(k)
           s == shards[i]
           s2 == shards'[i]
           idx == MapGet(s.pos, k)
       IN  /\ itemCount(s2) = itemCount(s)
           /\ Len(s2.items) = Len(s.items)
           /\ s2.pos = s.pos
           /\ ItemAt(s2.items, idx) = loc[t].item
           /\ \A j \in 0..(Len(s.items) - 1) :
                 j # idx => ItemAt(s2.items, j) = ItemAt(s.items, j)
           /\ shardGet(s2, k) = loc[t].item
           /\ \A j \in Keys \ {k} :
                 shardGet(shards'[getShard(j)], j) = Lookup(j)
           /\ \A j \in ShardIds \ {i} : shards'[j] = shards[j]
           /\ loc'[t].old = Lookup(k)
           /\ pc'[t] = "set_subold"
           /\ heap' = heap
           /\ size' = size

\* The two additions to size that follow, before evictIfNeeded starts.
C32_SizeDelta(t) ==
    /\ (pc[t] = "set_subold" /\ pc'[t] # "set_subold") =>
          /\ size' = size - heap[loc[t].old].weight
          /\ pc'[t] = "set_add"
          /\ shards' = shards
    /\ (pc[t] = "set_add" /\ pc'[t] # "set_add") =>
          /\ size' = size + heap[loc[t].item].weight
          /\ pc'[t] = "ev_check"
          /\ shards' = shards

\* C32: Set on a key that is already stored replaces in place.  The item
\* count and pos[k] are unchanged, items[pos[k]] becomes the new item, size
\* changes by the new weight minus the old weight before eviction runs, and
\* the new item is a fresh entry whose created tick and last-access tick are
\* both the one tick drawn by this Set: the created tick, the hits and the
\* expiration of the displaced item are not carried over.
C32_SetReplacesInPlace ==
    [][\A t \in Threads : /\ C32_FreshItem(t)
                          /\ C32_ReplacesInPlace(t)
                          /\ C32_SizeDelta(t)]_vars

\* A Set has put its item, of another weight, in the place of an item that
\* had been hit, in a shard that holds a second key.
C32_DisplacedHitItem ==
    \E t \in Threads :
       /\ pc[t] = "set_subold" /\ loc[t].op = "Set"
       /\ Lookup(loc[t].key) = loc[t].item
       /\ heap[loc[t].old].hits > 0
       /\ heap[loc[t].item].hits = 0
       /\ heap[loc[t].old].weight # heap[loc[t].item].weight
       /\ heap[loc[t].old].expires # heap[loc[t].item].expires
       /\ Len(shards[getShard(loc[t].key)].items) > 1


\* ---- C33

\* Thread 1, alone, has returned from a Set whose item weighs no more than
\* max_weight.
C33_SetReturned ==
    /\ SingleThreaded
    /\ pc[1] = "idle"
    /\ last[1].op = "Set"
    /\ heap[last[1].item].weight <= cfg.MaxWeight

\* The Peek that follows, in a cache that returns expired items.
C33_PeekFollowsSet ==
    /\ C33_SetReturned'
    /\ cfg.ExpirationPolicy = ReturnExpired
    /\ last[1].op = "Set"
    /\ loc[1].op = "Peek" /\ loc[1].key = last[1].key
    /\ Returning(1)

\* C33: in single-threaded use, for both eviction policies and both
\* selection paths, the eviction loop run by Set(k, v, ttl) never evicts the
\* item this Set has just inserted, provided the weight of that item alone
\* does not exceed max_weight; so Peek(k) under the return-expired policy
\* returns the new item right after Set returns.
C33_SetKeepsItsOwnItem ==
    /\ [](C33_SetReturned => Lookup(last[1].key) = last[1].item)
    /\ [][C33_PeekFollowsSet => last'[1].item = last[1].item]_vars


\* ---- C34

\* The sum over the items ever built of count[id] times the item's weight.
RECURSIVE WeightedSum(_, _)
WeightedSum(count, ids) ==
    IF ids = {} THEN 0
    ELSE LET id == CHOOSE x \in ids : TRUE
         IN  count[id] * heap[id].weight + WeightedSum(count, ids \ {id})

\* The books of one item: added at most once and subtracted at most once,
\* subtracted only after a Set, a Delete or an eviction took it out of its
\* shard; once every call has returned, added once, and subtracted once
\* exactly when it has left its shard.
C34_ItemBooks(id) ==
    /\ hist.adds[id] <= 1
    /\ hist.subs[id] <= 1
    /\ hist.subs[id] = 1 => hist.rem[id] \in {"set", "delete", "evict"}
    /\ Quiescent =>
          /\ hist.adds[id] = 1
          /\ hist.subs[id] = 1 <=> id \notin StoredIds
          /\ id \notin StoredIds <=> hist.rem[id] \in {"set", "delete", "evict"}

\* C34: when Clear is never called, under every interleaving of concurrent
\* Set, Delete, Replace, Get and Extend calls the weight of each inserted
\* item is added to size once and subtracted once (by whichever of a
\* displacing Set, a Delete or a successful eviction removed it from its
\* shard), so that once all calls have returned size is the sum of the
\* weights of the stored items.
C34_WeightCountedOnceWithoutClear ==
    ~hist.cleared =>
       /\ \A id \in DOMAIN heap : C34_ItemBooks(id)
       /\ size = WeightedSum(hist.adds, DOMAIN heap)
                    - WeightedSum(hist.subs, DOMAIN heap)
       /\ Quiescent => size = StoredWeight

\* Without any Clear, two threads have returned from overlapping calls, a
\* Delete that removed an item and a Set whose eviction loop removed another.
C34_DeleteAndEvictionReturned ==
    /\ ~hist.cleared
    /\ Quiescent
    /\ last[2].op = "Delete" /\ last[2].item # Nil
    /\ last[1].op \in {"Set", "Replace"} /\ last[1].iters > 0
    /\ \E id \in DOMAIN heap : hist.rem[id] = "evict"
    /\ \E id \in DOMAIN heap : hist.rem[id] = "set"


\* ---- C35

\* C35: with a weigher that returns only non-negative weights, the size
\* counter is never negative in any reachable state, the states between a
\* thread's shard mutation and its update of size, while other threads run
\* Set or Delete on the same key, included.  (Every weigher of the model
\* returns a positive weight, and the states examined are those in which no
\* thread has called Clear.)
C35_SizeNeverNegative == ~hist.cleared => size >= 0


\* ---- C36

\* Every call made so far, returned or running, is a Set or a Delete.
C36_OnlySetAndDelete ==
    /\ ~hist.cleared
    /\ \A u \in Threads : /\ last[u].op \in {"none", "Set", "Delete"}
                          /\ loc[u].op \in {"none", "Set", "Delete"}

\* C36: no needless eviction.  Under any interleaving of concurrent Set and
\* Delete calls, the deleteIfSame of an eviction loop removes an item from
\* its shard only if the sum of the weights of the items stored in the
\* shards exceeds max_weight at the moment of that removal.
C36_NoNeedlessEviction ==
    [][\A t \in Threads :
          (/\ C36_OnlySetAndDelete
           /\ pc[t] = "ev_delete" /\ pc'[t] = "ev_sub")
             => StoredWeight > cfg.MaxWeight]_vars


\* ---- C37

\* C37: Replace never postpones expiration.  Whatever time passes between
\* Replace's read of the old item and its insert of the new one, the
\* expiration of the new item is not later than the expiration of the item it
\* replaces.  Stated for single-threaded use, where the item Replace read is
\* still the one stored under the key when the new item is built.
C37_ReplaceNeverPostpones ==
    [][(/\ SingleThreaded
        /\ pc[1] = "set_begin" /\ pc'[1] # "set_begin"
        /\ loc[1].replace
        /\ Lookup(loc[1].key) # Nil)
          => heap'[loc'[1].item].expires <= heap[Lookup(loc[1].key)].expires]_vars


\* ---- C38

\* scanOldest prefers a to b.
LruOrder(a, b) == heap[a].lastAccess < heap[b].lastAccess

\* scanLeastHitDense prefers a to b, at the tick a scan started now reads.
LhdOrder(a, b) ==
    lhdIsBetterCandidate(heap[a], heap[b], IF clock = 0 THEN 1 ELSE clock)

\* R is a strict total order on S.
StrictTotalOrder(R(_, _), S) ==
    /\ \A a \in S : ~R(a, a)
    /\ \A a, b \in S : R(a, b) => ~R(b, a)
    /\ \A a, b, c \in S : (R(a, b) /\ R(b, c)) => R(a, c)
    /\ \A a, b \in S : a # b => (R(a, b) \/ R(b, a))

C38_DistinctTicks ==
    \A a, b \in StoredIds : a # b => heap[a].lastAccess # heap[b].lastAccess

\* Whatever the orders in which the shard maps are walked, the scan of the
\* configured policy ends with one and the same item: the first stored item
\* of the policy's order (none when nothing is stored).
C38_OneVictim ==
    /\ Cardinality(ScanVictims) = 1
    /\ \A v \in ScanVictims :
          /\ v = Nil <=> StoredIds = {}
          /\ v # Nil =>
                /\ v \in StoredIds
                /\ \A y \in StoredIds \ {v} :
                      IF cfg.EvictionPolicy = SampledLhd
                      THEN LhdOrder(v, y) ELSE LruOrder(v, y)

\* C38: the deterministic scans are independent of iteration order.  In
\* single-threaded use all stored items have pairwise distinct last-access
\* ticks, the LRU order and the LHD order (density, then weight, then
\* last-access tick) are strict total orders on the stored items, and
\* scanOldest and scanLeastHitDense return the same item whatever order the
\* shard maps are iterated in.
C38_ScansIndependentOfIterationOrder ==
    SingleThreaded =>
       /\ C38_DistinctTicks
       /\ StrictTotalOrder(LruOrder, StoredIds)
       /\ StrictTotalOrder(LhdOrder, StoredIds)
       /\ C38_OneVictim

\* A least-hit-dense scan is running over a shard that holds two items of
\* equal hit density, so that only the tie-breaks decide between them.
C38_ScanOverTiedItems ==
    /\ SingleThreaded
    /\ pc[1] = "scan"
    /\ cfg.EvictionPolicy = SampledLhd
    /\ \E i \in ShardIds :
          /\ loc[1].idx <= i
          /\ \E a, b \in {shards[i].store[k] : k \in DOMAIN shards[i].store} :
                /\ a # b
                /\ heap[a].hits = 0 /\ heap[b].hits = 0


\* ---- C39

\* Len, ItemCount and IsEmpty count the keys the shards hold, expired or not.
C39_LenCountsStoredKeys ==
    /\ CacheLen = Cardinality(StoredKeys)
    /\ CacheLen = Cardinality(StoredIds)
    /\ ItemCount = CacheLen
    /\ IsEmpty <=> StoredKeys = {}

\* Three Sets of distinct keys that evict nothing: the first three calls of
\* TestCacheEvictsLruWhenOverWeight, which fill the cache to max_weight.
C39_ThreeSetsGiveThree ==
    (mode = "lru" /\ pc[1] = "idle" /\ Len(script[1]) = 3) => CacheLen = 3

\* A Range that is never told to stop is called with every stored key, the
\* keys of expired items included.
C39_RangeDeliversAll(t) ==
    (loc[t].op = "Range" /\ loc[t].stop = 0 /\ Returning(t)) =>
       {last'[t].out[i] : i \in 1..Len(last'[t].out)} = StoredKeys

\* A Get that finds an expired item under treat-expired-as-miss returns none
\* and Len is what it was.
C39_MissKeepsLen(t) ==
    (/\ loc[t].op = "Get" /\ pc[t] = "get_expired" /\ Moves(t)
     /\ cfg.ExpirationPolicy = TreatExpiredAsMiss
     /\ Expired(heap[loc[t].item], now)) =>
       /\ Returning(t) /\ last'[t].item = Nil
       /\ CacheLen' = CacheLen
       /\ StoredKeys' = StoredKeys

\* C39: Len, ItemCount, IsEmpty and Range work on structural presence, not
\* on expiration.  In single-threaded use Len is the number of distinct keys
\* stored across all shards (three after three Sets of distinct keys without
\* eviction); expired entries are counted by Len and delivered to the Range
\* callback, and under treat-expired-as-miss Len stays positive while Get
\* returns none.
C39_LenAndRangeIgnoreExpiration ==
    /\ [](SingleThreaded => (C39_LenCountsStoredKeys /\ C39_ThreeSetsGiveThree))
    /\ [][SingleThreaded =>
             \A t \in Threads : /\ C39_RangeDeliversAll(t)
                                /\ C39_MissKeepsLen(t)]_vars

\* Every stored item has expired, the cache treats expired items as misses,
\* the Get of a stored key has just returned none, and Len is positive.
C39_LenPositiveAllExpired ==
    /\ SingleThreaded
    /\ pc[1] = "idle"
    /\ cfg.ExpirationPolicy = TreatExpiredAsMiss
    /\ last[1].op = "Get" /\ last[1].item = Nil
    /\ last[1].key \in StoredKeys
    /\ CacheLen > 0
    /\ \A id \in StoredIds : Expired(heap[id], now)

=============================================================================
